---- MODULE Spec2Model ----
(***************************************************************************)
(* Model of the billing pipeline of usage_transformation.py.               *)
(*                                                                         *)
(*   Spec          create_tabs_ready_usage (the usage reconciler)          *)
(*   SpecPriceBook price_book_transformation (the price-book ingester)     *)
(*                                                                         *)
(* Number representation.  Python floats and Decimals are modelled as      *)
(* exact fixed-point integers; every literal the model feeds in has few    *)
(* enough digits for the float operations of the code (sum of meters,      *)
(* pct / 100, str(float)) to be exact on it:                               *)
(*   meter values and event values   in cents        (1/100)               *)
(*   billing-term amounts (amount_1) in tenths       (1/10)                *)
(*   value * amount (sum_product)    in mills        (1/1000)              *)
(*   enterprise-support percentages  in thousandths  (1/1000)              *)
(* Binary floating-point rounding of the meter sum is not modelled.        *)
(***************************************************************************)
EXTENDS Integers, Sequences, FiniteSets, TLC

VARIABLES
    pc,                         \* position in the function being run
    \* ---- inputs of create_tabs_ready_usage
    customers_data,             \* get_all_customers() snapshot
    raw_usage_df,               \* rows of the raw monthly usage file
    tabs_bt_contract,           \* billing-term rows
    enterprise_support_file,    \* rows of the Enterprise Support % file, or NoFile
    \* ---- locals of create_tabs_ready_usage
    tenant_to_customer_id,
    resolved_df,                \* raw_usage_df after the customer_id map and the notna filter
    row_i,                      \* loop index of the loop in progress
    usage_lookup,
    invoice_mapping,
    valid_billing_terms,
    event_type_id_map,
    enterprise_support_rows,
    prepaid_rows,
    output_rows,
    output_keys,                \* history: the usage_lookup key each output row came from
    contract_to_invoice,
    customer_to_enterprise_pct,
    enterprise_new_rows,
    prepaid_new_rows,
    output_df,
    prepaid_seen,               \* history: output_df as each prepaid value was computed from it
    aborted,                    \* the outer `except Exception` returned an empty frame
    \* ---- price_book_transformation
    archive,                    \* entries of the uploaded ZIP file
    file_i,
    customer_files,
    all_dataframes,
    errors,
    combined,
    filtered_df,                \* customer_files['filtered']: the composed billing terms
    \* ---- the processing run of main.py around the two functions
    raw_usage_has_columns,      \* the raw usage file reads as a table with the required columns
    prepaid_file,               \* rows of the Prepaid file, or NoFile
    tabs_bt_clean_df,
    tabs_bt_enterprise,
    tabs_bt_prepaid_enterprise,
    prepaid_values,             \* generate_prepaid_report_data's result
    consumption_values,         \* generate_commit_consumption_data's result
    \* ---- the calls to the platform
    raw_usage_given,            \* a raw usage file was uploaded
    contract_calls,             \* history: the create_contract calls, in order
    obligations,                \* history: the rows whose obligation the platform created
    invoices_result,            \* create_invoices's result: push_status of every row
    event_attempts,             \* history: the create_usage_event calls, in order
    bulk_result                 \* create_usage_events_bulk's result

rec_vars == <<customers_data, raw_usage_df, tabs_bt_contract, enterprise_support_file,
              tenant_to_customer_id, resolved_df, row_i, usage_lookup, invoice_mapping,
              valid_billing_terms, event_type_id_map, enterprise_support_rows,
              prepaid_rows, output_rows, output_keys, contract_to_invoice,
              customer_to_enterprise_pct, enterprise_new_rows, prepaid_new_rows,
              output_df, prepaid_seen, aborted>>

pb_vars == <<archive, file_i, customer_files, all_dataframes, errors, combined, filtered_df>>

run_vars == <<raw_usage_has_columns, prepaid_file, tabs_bt_clean_df, tabs_bt_enterprise,
              tabs_bt_prepaid_enterprise, prepaid_values, consumption_values>>

push_vars == <<raw_usage_given, contract_calls, obligations, invoices_result, event_attempts,
               bulk_result>>

vars == <<pc, rec_vars, pb_vars, run_vars, push_vars>>

----------------------------------------------------------------------------
(* Bounds of the model.                                                    *)

MaxRows == 3      \* raw usage rows per run
MaxFiles == 3     \* entries per price-book archive

----------------------------------------------------------------------------
(* Generic helpers: sequences and insertion-ordered dicts.                 *)

Range(s) == {s[i] : i \in 1..Len(s)}

SeqsUpTo(S, n) == UNION {[1..k -> S] : k \in 0..n}

\* A Python dict as the sequence of its items in insertion order.
DictHas(d, key) == \E i \in 1..Len(d) : d[i].k = key

DictGet(d, key, default) ==
    IF DictHas(d, key)
    THEN d[CHOOSE i \in 1..Len(d) : d[i].k = key].v
    ELSE default

DictPut(d, key, val) ==
    IF DictHas(d, key)
    THEN [i \in 1..Len(d) |-> IF d[i].k = key THEN [k |-> key, v |-> val] ELSE d[i]]
    ELSE Append(d, [k |-> key, v |-> val])

Abs(n) == IF n < 0 THEN -n ELSE n

----------------------------------------------------------------------------
(* Text and number conversions, each by what the code does on the cells    *)
(* the model feeds in.                                                     *)

NaN == "NaN"               \* a missing cell (pd.isna)

\* An optional upload that was not given (None).
NoFile == [given |-> FALSE, extension |-> "", has_tenant_id |-> FALSE, columns |-> 0,
           rows |-> <<>>]

\* str.replace(',', '').strip()
StripCommas(s) ==
    CASE s = "1,250" -> "1250"
      [] s = " 5 "   -> "5"
      [] OTHER       -> s

\* The literals float() and Decimal() accept, with their value in cents.
NumericLiterals == {"5", "2.5", "100", "50", "0.25", "1250", "10", "0.1", "2", "1", "-1", "0",
                    "10.00"}

LiteralCents(s) ==
    CASE s = "5"    -> 500
      [] s = "2.5"  -> 250
      [] s = "100"  -> 10000
      [] s = "50"   -> 5000
      [] s = "0.25" -> 25
      [] s = "1250" -> 125000
      [] s = "10"   -> 1000
      [] s = "0.1"  -> 10
      [] s = "2"    -> 200
      [] s = "1"    -> 100
      [] s = "-1"   -> -100
      [] s = "0"    -> 0
      [] s = "10.00" -> 1000

\* float(str(meter_value).replace(',', '').strip()) if pd.notna(meter_value) else 0;
\* ok = FALSE is the ValueError branch, whose `pass` adds nothing.
ParseMeter(cell) ==
    IF cell = NaN THEN [ok |-> TRUE, cents |-> 0]
    ELSE IF StripCommas(cell) \in NumericLiterals
         THEN [ok |-> TRUE, cents |-> LiteralCents(StripCommas(cell))]
         ELSE [ok |-> FALSE, cents |-> 0]

\* Decimal(str(amount_1).replace(',', '').strip()), '0' for a missing or blank
\* cell, Decimal('0') when the literal is rejected; in tenths.
ParseAmount(cell) ==
    IF cell = NaN \/ cell = "" THEN 0
    ELSE IF StripCommas(cell) \in NumericLiterals
         THEN LiteralCents(StripCommas(cell)) \div 10
         ELSE 0

\* str() of the float a whole number is read as.
FloatStr(cell) ==
    CASE cell = "40" -> "40.0"
      [] cell = "41" -> "41.0"
      [] cell = "99" -> "99.0"
      [] OTHER       -> cell

\* df['Tenant ID'].astype(str): pandas reads a column of whole numbers as int64,
\* but as float64 when a cell of the column is blank, and then 40 reads '40.0'
\* and the blank cell 'nan'.
TenantIdsAsStr(rows) ==
    IF \E i \in 1..Len(rows) : rows[i].tenant_id = NaN
    THEN [i \in 1..Len(rows) |->
             [rows[i] EXCEPT !.tenant_id = IF @ = NaN THEN "nan" ELSE FloatStr(@)]]
    ELSE rows

\* Decimal() also accepts the text 'nan' and gives the quiet NaN, which every
\* product, sum and quantize it enters turns into NaN.
AmountIsNaN(cell) == cell # NaN /\ StripCommas(cell) = "nan"

\* str.replace('%', '').strip() on an Enterprise Support % cell
StripPercent(s) ==
    CASE s = "10%" -> "10"
      [] OTHER     -> s

\* float(str(enterprise_pct).replace('%', '').strip()), divided by 100 when > 1;
\* in thousandths.  ok = FALSE is the ValueError branch.
ParsePct(cell) ==
    IF StripPercent(cell) \in NumericLiterals
    THEN LET raw == LiteralCents(StripPercent(cell)) * 10
         IN  [ok |-> TRUE, pct |-> IF raw > 1000 THEN raw \div 100 ELSE raw]
    ELSE [ok |-> FALSE, pct |-> 0]

\* Decimal.quantize(Decimal('0.01'), rounding=ROUND_HALF_UP) of n / unit cents:
\* ties go away from zero.
RoundHalfUp(n, unit) ==
    LET q == Abs(n) \div unit
        r == Abs(n) % unit
        m == IF 2 * r >= unit THEN q + 1 ELSE q
    IN  IF n < 0 THEN -m ELSE m

\* 'Enterprise Support' in sku_name, 'Prepaid' in sku_name (substring tests)
SkuNames == {"Widget", "Gadget", "Enterprise Support", "Premium Enterprise Support",
             "Prepaid", "Prepaid Credits"}

is_enterprise_support(sku_name) ==
    sku_name \in {"Enterprise Support", "Premium Enterprise Support"}

is_prepaid(sku_name) == sku_name \in {"Prepaid", "Prepaid Credits"}

----------------------------------------------------------------------------
(* create_tabs_ready_usage: resolving tenants and aggregating the meters.  *)

\* The value of the first custom field called `name` that has a truthy value
\* ("" when there is none): the `for field in custom_fields` loops.
RECURSIVE FirstFieldValue(_, _)
FirstFieldValue(custom_fields, name) ==
    IF custom_fields = <<>> THEN ""
    ELSE IF Head(custom_fields).customFieldName = name
            /\ Head(custom_fields).customFieldValue # ""
         THEN Head(custom_fields).customFieldValue
         ELSE FirstFieldValue(Tail(custom_fields), name)

\* The bug of looking for 'Account #' before 'Tenant ID'.
RECURSIVE BuildTenantMapAccountFirst(_, _)
BuildTenantMapAccountFirst(customers, map) ==
    IF customers = <<>> THEN map
    ELSE LET customer == Head(customers)
             tid == FirstFieldValue(customer.customFields, "Tenant ID")
             acc == FirstFieldValue(customer.customFields, "Account #")
             next == IF acc # "" THEN DictPut(map, acc, customer.id)
                     ELSE IF tid # "" THEN DictPut(map, tid, customer.id)
                     ELSE map
         IN  BuildTenantMapAccountFirst(Tail(customers), next)

\* tenant_to_customer_id: 'Tenant ID' first, 'Account #' only when no
\* 'Tenant ID' value was found; a customer with neither adds nothing.
RECURSIVE BuildTenantMap(_, _)
BuildTenantMap(customers, map) ==
    IF customers = <<>> THEN map
    ELSE LET customer == Head(customers)
             tid == FirstFieldValue(customer.customFields, "Tenant ID")
             acc == FirstFieldValue(customer.customFields, "Account #")
             next == IF tid # "" THEN DictPut(map, tid, customer.id)
                     ELSE IF acc # "" THEN DictPut(map, acc, customer.id)
                     ELSE map
         IN  BuildTenantMap(Tail(customers), next)

\* raw_usage_df['customer_id'] = raw_usage_df['Tenant ID'].map(...), then
\* raw_usage_df[raw_usage_df['customer_id'].notna()]
RECURSIVE MapAndFilter(_, _)
MapAndFilter(rows, map) ==
    IF rows = <<>> THEN <<>>
    ELSE LET row == Head(rows)
             rest == MapAndFilter(Tail(rows), map)
         IN  IF DictHas(map, row.tenant_id)
             THEN <<[tenant_id |-> row.tenant_id, tenant_name |-> row.tenant_name,
                     sku_name |-> row.sku_name, contract |-> row.contract,
                     meter |-> row.meter,
                     customer_id |-> DictGet(map, row.tenant_id, NaN)]>> \o rest
             ELSE rest

\* The early returns before the try block.
EarlyReturn ==
    /\ pc = "start"
    /\ raw_usage_given
    /\ tabs_bt_contract = <<>>
    /\ pc' = "done"
    /\ UNCHANGED <<rec_vars, pb_vars, run_vars, push_vars>>

\* raise ValueError(f"Missing required columns: ..."), caught by the outer handler.
RejectUsageFile ==
    /\ pc = "start"
    /\ raw_usage_given
    /\ tabs_bt_contract # <<>>
    /\ ~raw_usage_has_columns
    /\ aborted' = TRUE
    /\ pc' = "done"
    /\ UNCHANGED <<customers_data, raw_usage_df, tabs_bt_contract, enterprise_support_file,
                   tenant_to_customer_id, resolved_df, row_i, usage_lookup, invoice_mapping,
                   valid_billing_terms, event_type_id_map, enterprise_support_rows,
                   prepaid_rows, output_rows, output_keys, contract_to_invoice,
                   customer_to_enterprise_pct, enterprise_new_rows, prepaid_new_rows,
                   output_df, prepaid_seen, pb_vars, run_vars, push_vars>>

ResolveTenants ==
    /\ pc = "start"
    /\ raw_usage_given
    /\ tabs_bt_contract # <<>>
    /\ raw_usage_has_columns
    /\ tenant_to_customer_id' = BuildTenantMap(customers_data, <<>>)
    /\ resolved_df' = MapAndFilter(TenantIdsAsStr(raw_usage_df), tenant_to_customer_id')
    /\ row_i' = 1
    /\ pc' = "aggregate"
    /\ UNCHANGED <<customers_data, raw_usage_df, tabs_bt_contract, enterprise_support_file,
                   usage_lookup, invoice_mapping, valid_billing_terms, event_type_id_map,
                   enterprise_support_rows, prepaid_rows, output_rows, output_keys,
                   contract_to_invoice, customer_to_enterprise_pct, enterprise_new_rows,
                   prepaid_new_rows, output_df, prepaid_seen, aborted, pb_vars, run_vars, push_vars>>

\* The bug of keying the aggregation by the triple alone.
LookupKeyWithoutTenantName(row) == <<row.customer_id, row.sku_name, row.contract, "">>

\* One turn of the body of `for _, row in raw_usage_df.iterrows()`.
LookupKey(row) == <<row.customer_id, row.sku_name, row.contract, row.tenant_name>>

\* The bug of storing the latest meter instead of adding it.
AddMeterOverwriting(lookup, row) ==
    LET meter == ParseMeter(row.meter)
    IN  DictPut(lookup, LookupKey(row), meter.cents)

AddMeter(lookup, row) ==
    LET key == LookupKey(row)
        entered == IF DictHas(lookup, key) THEN lookup ELSE DictPut(lookup, key, 0)
        meter == ParseMeter(row.meter)
    IN  IF meter.ok
        THEN DictPut(entered, key, DictGet(entered, key, 0) + meter.cents)
        ELSE entered

AggregateRow ==
    /\ pc = "aggregate"
    /\ row_i <= Len(resolved_df)
    /\ usage_lookup' = AddMeter(usage_lookup, resolved_df[row_i])
    /\ row_i' = row_i + 1
    /\ UNCHANGED <<pc, customers_data, raw_usage_df, tabs_bt_contract,
                   enterprise_support_file, tenant_to_customer_id, resolved_df,
                   invoice_mapping, valid_billing_terms, event_type_id_map,
                   enterprise_support_rows, prepaid_rows, output_rows, output_keys,
                   contract_to_invoice, customer_to_enterprise_pct, enterprise_new_rows,
                   prepaid_new_rows, output_df, prepaid_seen, aborted, pb_vars, run_vars, push_vars>>

\* The bug of listing a tenant name once per row.
RECURSIVE TenantNamesRepeated(_, _)
TenantNamesRepeated(rows, names) ==
    IF rows = <<>> THEN names
    ELSE LET row == Head(rows)
             sofar == DictGet(names, row.tenant_id, <<>>)
         IN  TenantNamesRepeated(Tail(rows),
                                 DictPut(names, row.tenant_id, Append(sofar, row.tenant_name)))

\* tenant_id_to_tenant_names: each tenant id's distinct tenant names, first seen first.
RECURSIVE TenantNames(_, _)
TenantNames(rows, names) ==
    IF rows = <<>> THEN names
    ELSE LET row == Head(rows)
             sofar == DictGet(names, row.tenant_id, <<>>)
             next == IF row.tenant_name \in Range(sofar)
                     THEN DictPut(names, row.tenant_id, sofar)
                     ELSE DictPut(names, row.tenant_id, Append(sofar, row.tenant_name))
         IN  TenantNames(Tail(rows), next)

\* invoice_mapping[(tenant_id, tenant_name)] = idx, enumerate(..., start=1)
invoice_start == 1

RECURSIVE EnumerateNames(_, _, _, _)
EnumerateNames(map, tenant_id, tenant_names, idx) ==
    IF tenant_names = <<>> THEN map
    ELSE EnumerateNames(DictPut(map, <<tenant_id, Head(tenant_names)>>, idx),
                        tenant_id, Tail(tenant_names), idx + 1)

RECURSIVE BuildInvoiceMap(_, _)
BuildInvoiceMap(names, map) ==
    IF names = <<>> THEN map
    ELSE BuildInvoiceMap(Tail(names),
                         EnumerateNames(map, Head(names).k, Head(names).v, invoice_start))

BuildInvoiceMapping ==
    /\ pc = "aggregate"
    /\ row_i > Len(resolved_df)
    /\ invoice_mapping' = BuildInvoiceMap(TenantNames(resolved_df, <<>>), <<>>)
    /\ pc' = "terms"
    /\ UNCHANGED <<customers_data, raw_usage_df, tabs_bt_contract, enterprise_support_file,
                   tenant_to_customer_id, resolved_df, row_i, usage_lookup,
                   valid_billing_terms, event_type_id_map, enterprise_support_rows,
                   prepaid_rows, output_rows, output_keys, contract_to_invoice,
                   customer_to_enterprise_pct, enterprise_new_rows, prepaid_new_rows,
                   output_df, prepaid_seen, aborted, pb_vars, run_vars, push_vars>>

----------------------------------------------------------------------------
(* create_tabs_ready_usage: the billing-term scan and the regular events.  *)

\* `if not customer_id or not sku_name or customer_id == 'nan' or sku_name == 'nan': continue`
SkippedTerm(bt_row) ==
    \/ bt_row.customer_id = "" \/ bt_row.customer_id = "nan" \/ bt_row.customer_id = NaN
    \/ bt_row.name = "" \/ bt_row.name = "nan" \/ bt_row.name = NaN

\* str(bt_row.get('event_to_track', '')) if pd.notna(...) else ''
EventToTrack(bt_row) == IF bt_row.event_to_track = NaN THEN "" ELSE bt_row.event_to_track

TermTriple(bt_row) == <<bt_row.customer_id, bt_row.name, bt_row.contract_name>>

SyntheticInfo(bt_row) ==
    [customer_id |-> bt_row.customer_id, name |-> bt_row.name,
     contract_name |-> bt_row.contract_name, event_type_id |-> EventToTrack(bt_row)]

\* The bug of taking the synthetic terms for regular ones too.
AddsEveryTerm(bt_row) == ~SkippedTerm(bt_row)

\* The regular terms are the ones that are neither Enterprise Support nor Prepaid.
AddsValidTerm(bt_row) ==
    /\ ~SkippedTerm(bt_row)
    /\ ~is_enterprise_support(bt_row.name)
    /\ ~is_prepaid(bt_row.name)

ValidBillingTerms(terms) ==
    {TermTriple(terms[i]) : i \in {j \in 1..Len(terms) : AddsValidTerm(terms[j])}}

RECURSIVE EventTypeIdMap(_, _)
EventTypeIdMap(terms, map) ==
    IF terms = <<>> THEN map
    ELSE EventTypeIdMap(Tail(terms),
                        IF SkippedTerm(Head(terms)) THEN map
                        ELSE DictPut(map, TermTriple(Head(terms)), EventToTrack(Head(terms))))

RECURSIVE EnterpriseSupportRows(_)
EnterpriseSupportRows(terms) ==
    IF terms = <<>> THEN <<>>
    ELSE (IF ~SkippedTerm(Head(terms)) /\ is_enterprise_support(Head(terms).name)
          THEN <<SyntheticInfo(Head(terms))>> ELSE <<>>)
         \o EnterpriseSupportRows(Tail(terms))

RECURSIVE PrepaidRows(_)
PrepaidRows(terms) ==
    IF terms = <<>> THEN <<>>
    ELSE (IF /\ ~SkippedTerm(Head(terms))
             /\ ~is_enterprise_support(Head(terms).name)
             /\ is_prepaid(Head(terms).name)
          THEN <<SyntheticInfo(Head(terms))>> ELSE <<>>)
         \o PrepaidRows(Tail(terms))

ScanBillingTerms ==
    /\ pc = "terms"
    /\ valid_billing_terms' = ValidBillingTerms(tabs_bt_contract)
    /\ event_type_id_map' = EventTypeIdMap(tabs_bt_contract, <<>>)
    /\ enterprise_support_rows' = EnterpriseSupportRows(tabs_bt_contract)
    /\ prepaid_rows' = PrepaidRows(tabs_bt_contract)
    /\ pc' = "emit"
    /\ UNCHANGED <<customers_data, raw_usage_df, tabs_bt_contract, enterprise_support_file,
                   tenant_to_customer_id, resolved_df, row_i, usage_lookup, invoice_mapping,
                   output_rows, output_keys, contract_to_invoice,
                   customer_to_enterprise_pct, enterprise_new_rows, prepaid_new_rows,
                   output_df, prepaid_seen, aborted, pb_vars, run_vars, push_vars>>

\* customer_id_to_tenant_id = {v: k for k, v in tenant_to_customer_id.items()}
RECURSIVE ReverseMap(_, _)
ReverseMap(items, map) ==
    IF items = <<>> THEN map
    ELSE ReverseMap(Tail(items), DictPut(map, Head(items).v, Head(items).k))

InvoiceOf(key) ==
    LET tenant_id == DictGet(ReverseMap(tenant_to_customer_id, <<>>), key[1], "")
    IN  DictGet(invoice_mapping, <<tenant_id, key[4]>>, 1)

\* The bug of emitting a row for every aggregated key.
EmitsEveryRow(key) == TRUE

\* `if (customer_id, sku_name, contract) not in valid_billing_terms: continue`
EmitsRow(key) == <<key[1], key[2], key[3]>> \in valid_billing_terms

UsageRow(item) ==
    [customer_id |-> item.k[1],
     event_type_id |-> DictGet(event_type_id_map, <<item.k[1], item.k[2], item.k[3]>>, ""),
     event_type_name |-> item.k[2],
     value |-> item.v,
     nan |-> FALSE,
     invoice |-> InvoiceOf(item.k)]

RECURSIVE OutputRows(_)
OutputRows(items) ==
    IF items = <<>> THEN <<>>
    ELSE (IF EmitsRow(Head(items).k) THEN <<UsageRow(Head(items))>> ELSE <<>>)
         \o OutputRows(Tail(items))

RECURSIVE OutputKeys(_)
OutputKeys(items) ==
    IF items = <<>> THEN <<>>
    ELSE (IF EmitsRow(Head(items).k) THEN <<Head(items).k>> ELSE <<>>)
         \o OutputKeys(Tail(items))

\* The bug of letting a later key of the customer and contract overwrite the entry.
RECURSIVE ContractToInvoiceLast(_, _)
ContractToInvoiceLast(items, map) ==
    IF items = <<>> THEN map
    ELSE LET key == Head(items).k
         IN  ContractToInvoiceLast(Tail(items),
                 IF EmitsRow(key)
                 THEN DictPut(map, <<key[1], key[3]>>, InvoiceOf(key))
                 ELSE map)

\* contract_to_invoice: the invoice of the first emitting key of each (customer, contract).
RECURSIVE ContractToInvoice(_, _)
ContractToInvoice(items, map) ==
    IF items = <<>> THEN map
    ELSE LET key == Head(items).k
         IN  ContractToInvoice(Tail(items),
                 IF EmitsRow(key) /\ ~DictHas(map, <<key[1], key[3]>>)
                 THEN DictPut(map, <<key[1], key[3]>>, InvoiceOf(key))
                 ELSE map)

EmitUsageRows ==
    /\ pc = "emit"
    /\ output_rows' = OutputRows(usage_lookup)
    /\ output_keys' = OutputKeys(usage_lookup)
    /\ output_df' = output_rows'
    /\ contract_to_invoice' = ContractToInvoice(usage_lookup, <<>>)
    /\ row_i' = 1
    /\ pc' = IF enterprise_support_rows # <<>> THEN "es_pct" ELSE "prepaid"
    /\ UNCHANGED <<customers_data, raw_usage_df, tabs_bt_contract, enterprise_support_file,
                   tenant_to_customer_id, resolved_df, usage_lookup, invoice_mapping,
                   valid_billing_terms, event_type_id_map, enterprise_support_rows,
                   prepaid_rows, customer_to_enterprise_pct, enterprise_new_rows,
                   prepaid_new_rows, prepaid_seen, aborted, pb_vars, run_vars, push_vars>>

----------------------------------------------------------------------------
(* create_tabs_ready_usage: the Enterprise Support and Prepaid events.     *)

\* The file yields percentages only when it is a CSV or Excel file that has a
\* 'Tenant ID' column and at least 5 columns (column E holds the percentage).
min_pct_columns == 5

UsablePctFile(file) ==
    /\ file.given
    /\ file.extension \in {"csv", "xlsx", "xls"}
    /\ file.rows # <<>>
    /\ file.has_tenant_id
    /\ file.columns >= min_pct_columns

\* for _, row in enterprise_df.iterrows(): customer_to_enterprise_pct[str(customer_id)] = pct_value
RECURSIVE EnterprisePctMap(_, _, _)
EnterprisePctMap(rows, tenants, map) ==
    IF rows = <<>> THEN map
    ELSE LET row == Head(rows)
             parsed == ParsePct(row.pct)
             next == IF row.pct # NaN /\ parsed.ok /\ DictHas(tenants, row.tenant_id)
                     THEN DictPut(map, DictGet(tenants, row.tenant_id, ""), parsed.pct)
                     ELSE map
         IN  EnterprisePctMap(Tail(rows), tenants, next)

ReadEnterprisePct ==
    /\ pc = "es_pct"
    /\ customer_to_enterprise_pct' =
           IF UsablePctFile(enterprise_support_file)
           THEN EnterprisePctMap(TenantIdsAsStr(enterprise_support_file.rows),
                                 BuildTenantMap(customers_data, <<>>), <<>>)
           ELSE <<>>
    /\ row_i' = 1
    /\ pc' = "es_rows"
    /\ UNCHANGED <<customers_data, raw_usage_df, tabs_bt_contract, enterprise_support_file,
                   tenant_to_customer_id, resolved_df, usage_lookup, invoice_mapping,
                   valid_billing_terms, event_type_id_map, enterprise_support_rows,
                   prepaid_rows, output_rows, output_keys, contract_to_invoice,
                   enterprise_new_rows, prepaid_new_rows, output_df, prepaid_seen,
                   aborted, pb_vars, run_vars, push_vars>>

\* matching_contract_rows.iloc[0].get('amount_1', 0) parsed as a Decimal: the first
\* term, in term order, of that customer_id and name; nothing when there is none.
MatchingTerms(terms, customer_id, event_type_name) ==
    {i \in 1..Len(terms) : /\ terms[i].customer_id = customer_id
                           /\ terms[i].name = event_type_name}

FirstOf(S) == CHOOSE i \in S : \A j \in S : i <= j

\* The bug of pricing with the last matching term instead of the first.
MatchedAmountOfLastTerm(terms, customer_id, event_type_name) ==
    LET matching == MatchingTerms(terms, customer_id, event_type_name)
    IN  IF matching = {} THEN 0
        ELSE ParseAmount(terms[CHOOSE i \in matching : \A j \in matching : j <= i].amount_1)

MatchedAmount(terms, customer_id, event_type_name) ==
    LET matching == MatchingTerms(terms, customer_id, event_type_name)
    IN  IF matching = {} THEN 0
        ELSE ParseAmount(terms[FirstOf(matching)].amount_1)

\* sum_product += value_decimal * amount_1_decimal over customer_rows; in mills.
RECURSIVE SumProduct(_, _, _)
SumProduct(customer_rows, terms, customer_id) ==
    IF customer_rows = <<>> THEN 0
    ELSE Head(customer_rows).value
             * MatchedAmount(terms, customer_id, Head(customer_rows).event_type_name)
         + SumProduct(Tail(customer_rows), terms, customer_id)

EnterpriseCustomerRows(frame, customer_id) ==
    SelectSeq(frame, LAMBDA r : /\ r.customer_id = customer_id
                                /\ r.event_type_name # "Enterprise Support")

PrepaidCustomerRows(frame, customer_id) ==
    SelectSeq(frame, LAMBDA r : r.customer_id = customer_id)

\* sum_product is NaN as soon as one row of customer_rows is priced with a NaN amount.
SumProductIsNaN(customer_rows, terms, customer_id) ==
    \E i \in 1..Len(customer_rows) :
        LET matching == MatchingTerms(terms, customer_id, customer_rows[i].event_type_name)
        IN  matching # {} /\ AmountIsNaN(terms[FirstOf(matching)].amount_1)

EnterpriseValueIsNaN(frame, terms, customer_id, enterprise_pct) ==
    LET customer_rows == EnterpriseCustomerRows(frame, customer_id)
    IN  /\ enterprise_pct > 0
        /\ customer_rows # <<>>
        /\ SumProductIsNaN(customer_rows, terms, customer_id)

PrepaidValueIsNaN(frame, terms, customer_id) ==
    LET customer_rows == PrepaidCustomerRows(frame, customer_id)
    IN  customer_rows # <<>> /\ SumProductIsNaN(customer_rows, terms, customer_id)

\* The bug of cutting the product off at the cent instead of rounding it.
EnterpriseValueTruncating(frame, terms, customer_id, enterprise_pct) ==
    LET customer_rows == EnterpriseCustomerRows(frame, customer_id)
    IN  IF enterprise_pct > 0 /\ customer_rows # <<>>
        THEN (SumProduct(customer_rows, terms, customer_id) * enterprise_pct) \div 10000
        ELSE 0

\* (sum_product * enterprise_pct_decimal).quantize(Decimal('0.01'), ROUND_HALF_UP):
\* mills times thousandths, to cents.
EnterpriseValue(frame, terms, customer_id, enterprise_pct) ==
    LET customer_rows == EnterpriseCustomerRows(frame, customer_id)
    IN  IF enterprise_pct > 0 /\ customer_rows # <<>>
        THEN RoundHalfUp(SumProduct(customer_rows, terms, customer_id) * enterprise_pct,
                         10000)
        ELSE 0

\* The bug of leaving the Enterprise Support events out of the Prepaid sum.
PrepaidValueWithoutEnterprise(frame, terms, customer_id) ==
    LET customer_rows == SelectSeq(frame, LAMBDA r : /\ r.customer_id = customer_id
                                                     /\ ~is_enterprise_support(r.event_type_name))
    IN  IF customer_rows # <<>>
        THEN RoundHalfUp(SumProduct(customer_rows, terms, customer_id), 10)
        ELSE 0

\* sum_product.quantize(Decimal('0.01'), ROUND_HALF_UP): mills to cents.
PrepaidValue(frame, terms, customer_id) ==
    LET customer_rows == PrepaidCustomerRows(frame, customer_id)
    IN  IF customer_rows # <<>>
        THEN RoundHalfUp(SumProduct(customer_rows, terms, customer_id), 10)
        ELSE 0

\* A row whose calculated value is the float nan has nan = TRUE and value 0, the
\* value it is read as afterwards (`if pd.notna(value) ... else '0'`).
SyntheticRow(info, value, nan) ==
    [customer_id |-> info.customer_id,
     event_type_id |-> info.event_type_id,
     event_type_name |-> info.name,
     value |-> IF nan THEN 0 ELSE value,
     nan |-> nan,
     invoice |-> DictGet(contract_to_invoice, <<info.customer_id, info.contract_name>>, 1)]

\* The frame built from no rows has no columns: output_df['customer_id'] raises
\* KeyError, which the outer `except Exception` turns into an empty result.
Abort ==
    /\ aborted' = TRUE
    /\ output_df' = <<>>
    /\ pc' = "done"

\* The bug of making no event for an Enterprise Support term whose customer has no
\* event yet.
ComputeEnterpriseRowOnlyWithUsage ==
    /\ pc = "es_rows"
    /\ row_i <= Len(enterprise_support_rows)
    /\ LET es_info == enterprise_support_rows[row_i]
           enterprise_pct == DictGet(customer_to_enterprise_pct, es_info.customer_id, 0)
       IN  IF enterprise_pct > 0 /\ output_df = <<>>
           THEN /\ Abort
                /\ UNCHANGED <<row_i, enterprise_new_rows>>
           ELSE /\ enterprise_new_rows' =
                       IF PrepaidCustomerRows(output_df, es_info.customer_id) = <<>>
                       THEN enterprise_new_rows
                       ELSE Append(enterprise_new_rows,
                                   SyntheticRow(es_info,
                                                EnterpriseValue(output_df, tabs_bt_contract,
                                                                es_info.customer_id,
                                                                enterprise_pct),
                                                EnterpriseValueIsNaN(output_df, tabs_bt_contract,
                                                                     es_info.customer_id,
                                                                     enterprise_pct)))
                /\ row_i' = row_i + 1
                /\ UNCHANGED <<pc, aborted, output_df>>
    /\ UNCHANGED <<customers_data, raw_usage_df, tabs_bt_contract, enterprise_support_file,
                   tenant_to_customer_id, resolved_df, usage_lookup, invoice_mapping,
                   valid_billing_terms, event_type_id_map, enterprise_support_rows,
                   prepaid_rows, output_rows, output_keys, contract_to_invoice,
                   customer_to_enterprise_pct, prepaid_new_rows, prepaid_seen, pb_vars, run_vars, push_vars>>

\* One turn of `for es_info in enterprise_support_rows`.
ComputeEnterpriseRow ==
    /\ pc = "es_rows"
    /\ row_i <= Len(enterprise_support_rows)
    /\ LET es_info == enterprise_support_rows[row_i]
           enterprise_pct == DictGet(customer_to_enterprise_pct, es_info.customer_id, 0)
       IN  IF enterprise_pct > 0 /\ output_df = <<>>
           THEN /\ Abort
                /\ UNCHANGED <<row_i, enterprise_new_rows>>
           ELSE /\ enterprise_new_rows' =
                       Append(enterprise_new_rows,
                              SyntheticRow(es_info,
                                           EnterpriseValue(output_df, tabs_bt_contract,
                                                           es_info.customer_id,
                                                           enterprise_pct),
                                           EnterpriseValueIsNaN(output_df, tabs_bt_contract,
                                                                es_info.customer_id,
                                                                enterprise_pct)))
                /\ row_i' = row_i + 1
                /\ UNCHANGED <<pc, aborted, output_df>>
    /\ UNCHANGED <<customers_data, raw_usage_df, tabs_bt_contract, enterprise_support_file,
                   tenant_to_customer_id, resolved_df, usage_lookup, invoice_mapping,
                   valid_billing_terms, event_type_id_map, enterprise_support_rows,
                   prepaid_rows, output_rows, output_keys, contract_to_invoice,
                   customer_to_enterprise_pct, prepaid_new_rows, prepaid_seen, pb_vars, run_vars, push_vars>>

\* The bug of going on to the Prepaid rows without the concat.
AppendEnterpriseRowsSkipped ==
    /\ pc = "es_rows"
    /\ row_i > Len(enterprise_support_rows)
    /\ row_i' = 1
    /\ pc' = "prepaid"
    /\ UNCHANGED <<customers_data, raw_usage_df, tabs_bt_contract, enterprise_support_file,
                   tenant_to_customer_id, resolved_df, usage_lookup, invoice_mapping,
                   valid_billing_terms, event_type_id_map, enterprise_support_rows,
                   prepaid_rows, output_rows, output_keys, contract_to_invoice,
                   customer_to_enterprise_pct, enterprise_new_rows, prepaid_new_rows,
                   output_df, prepaid_seen, aborted, pb_vars, run_vars, push_vars>>

\* output_df = pd.concat([output_df, enterprise_df], ignore_index=True)
AppendEnterpriseRows ==
    /\ pc = "es_rows"
    /\ row_i > Len(enterprise_support_rows)
    /\ output_df' = output_df \o enterprise_new_rows
    /\ row_i' = 1
    /\ pc' = "prepaid"
    /\ UNCHANGED <<customers_data, raw_usage_df, tabs_bt_contract, enterprise_support_file,
                   tenant_to_customer_id, resolved_df, usage_lookup, invoice_mapping,
                   valid_billing_terms, event_type_id_map, enterprise_support_rows,
                   prepaid_rows, output_rows, output_keys, contract_to_invoice,
                   customer_to_enterprise_pct, enterprise_new_rows, prepaid_new_rows,
                   prepaid_seen, aborted, pb_vars, run_vars, push_vars>>

\* One turn of `for prepaid_info in prepaid_rows`.
ComputePrepaidRow ==
    /\ pc = "prepaid"
    /\ row_i <= Len(prepaid_rows)
    /\ LET prepaid_info == prepaid_rows[row_i]
       IN  IF output_df = <<>>
           THEN /\ Abort
                /\ UNCHANGED <<row_i, prepaid_new_rows, prepaid_seen>>
           ELSE /\ prepaid_new_rows' =
                       Append(prepaid_new_rows,
                              SyntheticRow(prepaid_info,
                                           PrepaidValue(output_df, tabs_bt_contract,
                                                        prepaid_info.customer_id),
                                           PrepaidValueIsNaN(output_df, tabs_bt_contract,
                                                             prepaid_info.customer_id)))
                /\ prepaid_seen' = Append(prepaid_seen, output_df)
                /\ row_i' = row_i + 1
                /\ UNCHANGED <<pc, aborted, output_df>>
    /\ UNCHANGED <<customers_data, raw_usage_df, tabs_bt_contract, enterprise_support_file,
                   tenant_to_customer_id, resolved_df, usage_lookup, invoice_mapping,
                   valid_billing_terms, event_type_id_map, enterprise_support_rows,
                   prepaid_rows, output_rows, output_keys, contract_to_invoice,
                   customer_to_enterprise_pct, enterprise_new_rows, pb_vars, run_vars, push_vars>>

\* output_df = pd.concat([output_df, prepaid_df], ignore_index=True); return output_df
AppendPrepaidRows ==
    /\ pc = "prepaid"
    /\ row_i > Len(prepaid_rows)
    /\ output_df' = output_df \o prepaid_new_rows
    /\ pc' = "done"
    /\ UNCHANGED <<customers_data, raw_usage_df, tabs_bt_contract, enterprise_support_file,
                   tenant_to_customer_id, resolved_df, row_i, usage_lookup, invoice_mapping,
                   valid_billing_terms, event_type_id_map, enterprise_support_rows,
                   prepaid_rows, output_rows, output_keys, contract_to_invoice,
                   customer_to_enterprise_pct, enterprise_new_rows, prepaid_new_rows,
                   prepaid_seen, aborted, pb_vars, run_vars, push_vars>>

----------------------------------------------------------------------------
(* Inputs of create_tabs_ready_usage.                                      *)

Field(name, value) == [customFieldName |-> name, customFieldValue |-> value]

\* The customer registry: tenant "40" is cust-1 (by 'Tenant ID', which wins over
\* 'Account #'), tenant "41" is cust-2 (by 'Account #', its 'Tenant ID' being
\* blank), cust-3 has neither field; tenant "99" resolves to nobody.
Registry ==
    << [id |-> "cust-1", customFields |-> <<Field("Account #", "77"), Field("Tenant ID", "40")>>],
       [id |-> "cust-2", customFields |-> <<Field("Tenant ID", ""), Field("Account #", "41")>>],
       [id |-> "cust-3", customFields |-> <<Field("Region", "EU")>>] >>

UsageRowOf(tenant_id, tenant_name, sku_name, contract, meter) ==
    [tenant_id |-> tenant_id, tenant_name |-> tenant_name, sku_name |-> sku_name,
     contract |-> contract, meter |-> meter]

RowDomain ==
    { UsageRowOf("40", "Acme East", "Widget", "SFDC#1", "5"),
      UsageRowOf("40", "Acme East", "Widget", "SFDC#1", "2.5"),
      UsageRowOf("40", "Acme West", "Widget", "SFDC#1", "100"),
      UsageRowOf("40", "Acme East", "Gadget", "SFDC#1", "50"),
      UsageRowOf("40", "Acme West", "Widget", "SFDC#2", "0.25"),
      UsageRowOf("40", "Acme East", "Enterprise Support", "SFDC#1", "5"),
      UsageRowOf("40", "Acme West", "Prepaid", "SFDC#1", "2.5"),
      UsageRowOf("99", "Ghost", "Widget", "SFDC#1", "5"),
      UsageRowOf("41", "Solo", "Widget", "SFDC#1", "2.5") }

Term(customer_id, tenant_id, name, contract_name, amount_1, event_to_track) ==
    [customer_id |-> customer_id, tenant_id |-> tenant_id, name |-> name,
     contract_name |-> contract_name, amount_1 |-> amount_1,
     event_to_track |-> event_to_track]

W1 == Term("cust-1", "40", "Widget", "SFDC#1", "2", "evt-widget")
G1 == Term("cust-1", "40", "Gadget", "SFDC#1", "1", "evt-gadget")
W2 == Term("cust-1", "40", "Widget", "SFDC#2", "0.1", "evt-widget")
E1 == Term("cust-1", "40", "Enterprise Support", "SFDC#1", "1", "evt-es")
P1 == Term("cust-1", "40", "Prepaid", "SFDC#1", "-1", "evt-prepaid")
P1b == Term("cust-1", "40", "Prepaid Credits", "SFDC#2", "-1", "evt-prepaid")
W3 == Term("cust-2", "41", "Widget", "SFDC#1", "1", NaN)
E2 == Term("cust-2", "41", "Enterprise Support", "SFDC#1", "1", "evt-es")
P2 == Term("cust-2", "41", "Prepaid", "SFDC#1", "-1", "evt-prepaid")
N1 == Term("nan", "99", "Widget", "SFDC#1", "2", "evt-widget")

TermTables ==
    { <<>>,
      <<W1>>,
      <<N1, W1, G1>>,
      <<W1, G1, E1, P1>>,
      <<W2, P1>>,
      <<W1, W2, E1, P1>>,
      <<W2, W1, P1, E1>>,
      <<W1, W2, P1, P1b>>,
      <<W3, E1, P1>>,
      <<W1, W3, E1, E2, P1, P2>>,
      <<E1>>,
      <<P1>> }

PctRow(tenant_id, pct) == [tenant_id |-> tenant_id, pct |-> pct]

PctFile(extension, has_tenant_id, columns, rows) ==
    [given |-> TRUE, extension |-> extension, has_tenant_id |-> has_tenant_id,
     columns |-> columns, rows |-> rows]

PctFiles ==
    { NoFile,
      PctFile("csv", TRUE, 5, <<PctRow("40", "10")>>),
      PctFile("xlsx", TRUE, 5, <<PctRow("40", "2.5"), PctRow("41", "0.1")>>),
      PctFile("csv", TRUE, 5, <<PctRow("99", "10"), PctRow("40", "abc"), PctRow("41", "10%")>>),
      PctFile("csv", TRUE, 4, <<PctRow("40", "10")>>) }

----------------------------------------------------------------------------
(* The specification of create_tabs_ready_usage.                           *)

PriceBookIdle ==
    /\ archive = <<>>
    /\ file_i = 1
    /\ customer_files = <<>>
    /\ all_dataframes = <<>>
    /\ errors = <<>>
    /\ combined = <<>>
    /\ filtered_df = <<>>

\* No call to the platform has been made.
NoBulkResult == [total |-> 0, success_count |-> 0, failure_count |-> 0,
                 successes |-> <<>>, failures |-> <<>>]

PushIdle ==
    /\ raw_usage_given = TRUE
    /\ contract_calls = <<>>
    /\ obligations = <<>>
    /\ invoices_result = <<>>
    /\ event_attempts = <<>>
    /\ bulk_result = NoBulkResult

RunIdle ==
    /\ raw_usage_has_columns = TRUE
    /\ prepaid_file = NoFile
    /\ tabs_bt_clean_df = <<>>
    /\ tabs_bt_enterprise = <<>>
    /\ tabs_bt_prepaid_enterprise = <<>>
    /\ prepaid_values = <<>>
    /\ consumption_values = <<>>

Init ==
    /\ pc = "start"
    /\ customers_data = Registry
    /\ raw_usage_df \in SeqsUpTo(RowDomain, MaxRows)
    /\ tabs_bt_contract \in TermTables
    /\ enterprise_support_file \in PctFiles
    /\ tenant_to_customer_id = <<>>
    /\ resolved_df = <<>>
    /\ row_i = 1
    /\ usage_lookup = <<>>
    /\ invoice_mapping = <<>>
    /\ valid_billing_terms = {}
    /\ event_type_id_map = <<>>
    /\ enterprise_support_rows = <<>>
    /\ prepaid_rows = <<>>
    /\ output_rows = <<>>
    /\ output_keys = <<>>
    /\ contract_to_invoice = <<>>
    /\ customer_to_enterprise_pct = <<>>
    /\ enterprise_new_rows = <<>>
    /\ prepaid_new_rows = <<>>
    /\ output_df = <<>>
    /\ prepaid_seen = <<>>
    /\ aborted = FALSE
    /\ PriceBookIdle
    /\ RunIdle
    /\ PushIdle

Next ==
    \/ EarlyReturn
    \/ ResolveTenants
    \/ AggregateRow
    \/ BuildInvoiceMapping
    \/ ScanBillingTerms
    \/ EmitUsageRows
    \/ ReadEnterprisePct
    \/ ComputeEnterpriseRow
    \/ AppendEnterpriseRows
    \/ ComputePrepaidRow
    \/ AppendPrepaidRows

Spec == Init /\ [][Next]_vars

----------------------------------------------------------------------------
(* price_book_transformation: the archive and its entries.                 *)

\* str.lower() on the column headers and names the model feeds in.
Lower(s) ==
    CASE s = "Category"        -> "category"
      [] s = "SKU Name"        -> "sku name"
      [] s = "SKU Description" -> "sku description"
      [] s = "Unit of Measure" -> "unit of measure"
      [] s = "On-Demand Rate"  -> "on-demand rate"
      [] s = "Disc"            -> "disc"
      [] s = "NET RATE"        -> "net rate"
      [] s = "Net Rate"        -> "net rate"
      [] s = "Net Terms"       -> "net terms"
      [] s = "Terms"           -> "terms"
      [] s = "TERM"            -> "term"
      [] s = "Notes"           -> "notes"
      [] s = "Widget"          -> "widget"
      [] s = "WIDGET"          -> "widget"
      [] s = "Gadget"          -> "gadget"
      [] s = "Sprocket"        -> "sprocket"
      [] OTHER                 -> s

required_columns ==
    <<"Category", "SKU Name", "SKU Description", "Unit of Measure",
      "On-Demand Rate", "Disc", "NET RATE", "Net Terms">>

net_terms_variations == <<"net terms", "terms", "term">>

\* df_columns_lower[wanted]: the column whose lower-cased header is `wanted`, the
\* last one when several are (a dict comprehension); "" when there is none.
ColumnNamed(columns, wanted) ==
    LET hits == {i \in 1..Len(columns) : Lower(columns[i]) = wanted}
    IN  IF hits = {} THEN ""
        ELSE columns[CHOOSE i \in hits : \A j \in hits : j <= i]

\* net_terms_found: the column of the first variation that is present.
RECURSIVE NetTermsFound(_, _)
NetTermsFound(columns, variations) ==
    IF variations = <<>> THEN ""
    ELSE IF ColumnNamed(columns, Head(variations)) # ""
         THEN ColumnNamed(columns, Head(variations))
         ELSE NetTermsFound(columns, Tail(variations))

\* The bug of matching the headers as they are written.
MatchedColumnCaseSensitive(columns, req_col) ==
    IF req_col \in Range(columns) THEN req_col
    ELSE IF req_col = "Net Terms" THEN NetTermsFound(columns, net_terms_variations)
    ELSE ""

\* The column matched to one required column ("" when it is missing).
MatchedColumn(columns, req_col) ==
    IF Lower(req_col) = "net terms"
    THEN NetTermsFound(columns, net_terms_variations)
    ELSE ColumnNamed(columns, Lower(req_col))

missing_columns(columns) ==
    SelectSeq(required_columns, LAMBDA req_col : MatchedColumn(columns, req_col) = "")

\* df_full[matched_columns] with the Net Terms column renamed to 'Net Terms'.
matched_columns(columns) ==
    [i \in 1..Len(required_columns) |->
        IF Lower(required_columns[i]) = "net terms" THEN "Net Terms"
        ELSE MatchedColumn(columns, required_columns[i])]

\* The entries of the archive: the name, what reading and parsing the entry does
\* ("ok"; "value_error" for a pandas error that is a ValueError, such as
\* EmptyDataError or ParserError; "error" for any other exception), the column
\* headers and the rate rows.
Entry(filename, read, columns, rows) ==
    [filename |-> filename, read |-> read, columns |-> columns, rows |-> rows]

\* f.endswith(('.csv', '.xlsx', '.xls')), not under __MACOSX/, basename not '._*'
IsDataFile(filename) ==
    filename \notin {"notes.txt", "__MACOSX/._40_Koch_SFDC#00000190.xlsx"}

\* re.search(r'^(\d+)[_-]', basename) or re.search(r'price_by_sku_(\d+)_', basename)
TenantMatch(filename) ==
    CASE filename = "40_Koch_SFDC#00000190.xlsx"       -> "40"
      [] filename = "40_Koch_SFDC#00000200.csv"        -> "40"
      [] filename = "price_by_sku_41_Acme.csv"         -> "41"
      [] filename = "rates/227-Sita_SFDC#00000312.csv" -> "227"
      [] filename = "52_Empty_SFDC#00000007.csv"       -> "52"
      [] filename = "53_Locked_SFDC#00000008.xlsx"     -> "53"
      [] filename = "60_NoRate_SFDC#00000009.csv"      -> "60"
      [] filename = "61_NoTerms.xlsx"                  -> "61"
      [] filename = "40_Acme_SFDC#1.xlsx"              -> "40"
      [] filename = "40_Acme_SFDC#2.csv"               -> "40"
      [] filename = "41_Solo_SFDC#1.csv"               -> "41"
      [] filename = "227_Sita_SFDC#3.csv"              -> "227"
      [] OTHER                                         -> ""

\* re.search(r'(SFDC#\d+)\.\w+$', basename, re.IGNORECASE)
ContractMatch(filename) ==
    CASE filename = "40_Koch_SFDC#00000190.xlsx"       -> "SFDC#00000190"
      [] filename = "40_Koch_SFDC#00000200.csv"        -> "SFDC#00000200"
      [] filename = "rates/227-Sita_SFDC#00000312.csv" -> "SFDC#00000312"
      [] filename = "52_Empty_SFDC#00000007.csv"       -> "SFDC#00000007"
      [] filename = "53_Locked_SFDC#00000008.xlsx"     -> "SFDC#00000008"
      [] filename = "60_NoRate_SFDC#00000009.csv"      -> "SFDC#00000009"
      [] filename = "40_Acme_SFDC#1.xlsx"              -> "SFDC#1"
      [] filename = "40_Acme_SFDC#2.csv"               -> "SFDC#2"
      [] filename = "41_Solo_SFDC#1.csv"               -> "SFDC#1"
      [] filename = "227_Sita_SFDC#3.csv"              -> "SFDC#3"
      [] OTHER                                         -> ""

RateRow(sku_name, net_rate) == [sku_name |-> sku_name, net_rate |-> net_rate]

FullHeader ==
    <<"Category", "SKU Name", "SKU Description", "Unit of Measure",
      "On-Demand Rate", "Disc", "NET RATE", "Net Terms">>

EntryDomain ==
    { Entry("40_Koch_SFDC#00000190.xlsx", "ok", FullHeader,
            <<RateRow("Widget", "10.00"), RateRow("Gadget", "#REF!")>>),
      Entry("40_Koch_SFDC#00000200.csv", "ok",
            <<"Notes", "Category", "SKU Name", "SKU Description", "Unit of Measure",
              "On-Demand Rate", "Disc", "Net Rate", "Terms">>,
            <<RateRow("WIDGET", "2")>>),
      Entry("price_by_sku_41_Acme.csv", "ok",
            <<"Category", "SKU Name", "SKU Description", "Unit of Measure",
              "On-Demand Rate", "Disc", "NET RATE", "TERM">>,
            <<RateRow("Widget", "1")>>),
      Entry("60_NoRate_SFDC#00000009.csv", "ok",
            <<"Category", "SKU Name", "SKU Description", "Unit of Measure",
              "On-Demand Rate", "Disc", "Net Terms">>,
            <<RateRow("Widget", "")>>),
      Entry("61_NoTerms.xlsx", "ok",
            <<"Category", "SKU Name", "SKU Description", "Unit of Measure",
              "On-Demand Rate", "NET RATE", "Notes">>,
            <<RateRow("Gadget", "0.1")>>),
      Entry("rates/227-Sita_SFDC#00000312.csv", "ok", FullHeader,
            <<RateRow("Sprocket", "5")>>),
      Entry("52_Empty_SFDC#00000007.csv", "value_error", <<>>, <<>>),
      Entry("53_Locked_SFDC#00000008.xlsx", "error", <<>>, <<>>),
      Entry("summary.csv", "ok", FullHeader, <<RateRow("Widget", "5")>>),
      Entry("notes.txt", "ok", <<>>, <<>>),
      Entry("__MACOSX/._40_Koch_SFDC#00000190.xlsx", "error", <<>>, <<>>) }

\* The catalogs of the platform.
EventTypes == << [name |-> "widget", id |-> "evt-widget"],
                 [name |-> "Gadget", id |-> "evt-gadget"] >>

IntegrationItems == << [name |-> "Widget", id |-> "item-widget"],
                       [name |-> "gadget", id |-> "item-gadget"] >>

----------------------------------------------------------------------------
(* price_book_transformation: the operations.                              *)

ErrorOf(kind, filename, columns) == [kind |-> kind, filename |-> filename, columns |-> columns]

\* The frame of an accepted file: the matched columns, and every row tagged with
\* the tenant id, the contract name and the three unresolved ids.
Frame(entry) ==
    [filename |-> entry.filename,
     tenant_id |-> TenantMatch(entry.filename),
     contract_name |-> ContractMatch(entry.filename),
     columns |-> matched_columns(entry.columns),
     rows |-> [i \in 1..Len(entry.rows) |->
                  [sku_name |-> entry.rows[i].sku_name,
                   net_rate |-> entry.rows[i].net_rate,
                   tenant_id |-> TenantMatch(entry.filename),
                   contract_name |-> ContractMatch(entry.filename),
                   customer_id |-> NaN, event_to_track |-> NaN,
                   integration_item_id |-> NaN]]]

\* zip_file_obj.namelist() filtered to the data files.
OpenArchive ==
    /\ pc = "pb_start"
    /\ archive' = SelectSeq(archive, LAMBDA entry : IsDataFile(entry.filename))
    /\ file_i' = 1
    /\ pc' = "pb_files"
    /\ UNCHANGED <<rec_vars, run_vars, push_vars, customer_files, all_dataframes, errors, combined,
                   filtered_df>>

\* One turn of `for filename in data_files`.
IngestFile ==
    /\ pc = "pb_files"
    /\ file_i <= Len(archive)
    /\ LET entry == archive[file_i]
           filename == entry.filename
       IN  IF TenantMatch(filename) = ""
           THEN /\ errors' = Append(errors, ErrorOf("no_tenant_id", filename, <<>>))
                /\ UNCHANGED <<customer_files, all_dataframes>>
           ELSE IF entry.read = "value_error"
           THEN \* `except ValueError: continue`
                UNCHANGED <<errors, customer_files, all_dataframes>>
           ELSE IF entry.read = "error"
           THEN /\ errors' = Append(errors, ErrorOf("reading", filename, <<>>))
                /\ UNCHANGED <<customer_files, all_dataframes>>
           ELSE IF missing_columns(entry.columns) # <<>>
           THEN \* errors.append(error_msg); raise ValueError(error_msg)
                /\ errors' = Append(errors, ErrorOf("missing_columns", filename,
                                                    missing_columns(entry.columns)))
                /\ UNCHANGED <<customer_files, all_dataframes>>
           ELSE /\ all_dataframes' = Append(all_dataframes, Frame(entry))
                /\ customer_files' =
                       DictPut(customer_files, TenantMatch(filename),
                               [filename |-> filename,
                                tenant_id |-> TenantMatch(filename),
                                contract_name |-> ContractMatch(filename),
                                data |-> Len(all_dataframes) + 1])
                /\ UNCHANGED errors
    /\ file_i' = file_i + 1
    /\ UNCHANGED <<pc, rec_vars, run_vars, push_vars, archive, combined, filtered_df>>

\* The bug of keying the event catalog by the names as they are written.
RECURSIVE EventNameToIdExact(_, _)
EventNameToIdExact(events, map) ==
    IF events = <<>> THEN map
    ELSE EventNameToIdExact(Tail(events), DictPut(map, Head(events).name, Head(events).id))

\* event_name_to_id[event_name.lower()] = event_id
RECURSIVE EventNameToId(_, _)
EventNameToId(events, map) ==
    IF events = <<>> THEN map
    ELSE EventNameToId(Tail(events), DictPut(map, Lower(Head(events).name), Head(events).id))

\* item_name_to_id[item_name] = item_id
RECURSIVE ItemNameToId(_, _)
ItemNameToId(items, map) ==
    IF items = <<>> THEN map
    ELSE ItemNameToId(Tail(items), DictPut(map, Head(items).name, Head(items).id))

\* The three .map() calls on one frame; the catalog ids only when the frame has a
\* column called exactly 'SKU Name'.
ResolveFrame(frame) ==
    LET tenants == BuildTenantMap(customers_data, <<>>)
        has_sku == "SKU Name" \in Range(frame.columns)
    IN  [frame EXCEPT !.rows =
            [i \in 1..Len(frame.rows) |->
                [frame.rows[i] EXCEPT
                    !.customer_id = DictGet(tenants, frame.rows[i].tenant_id, NaN),
                    !.event_to_track =
                        IF has_sku
                        THEN DictGet(EventNameToId(EventTypes, <<>>),
                                     Lower(frame.rows[i].sku_name), NaN)
                        ELSE NaN,
                    !.integration_item_id =
                        IF has_sku
                        THEN DictGet(ItemNameToId(IntegrationItems, <<>>),
                                     frame.rows[i].sku_name, NaN)
                        ELSE NaN]]]

\* pd.concat(all_dataframes, ignore_index=True): the rows of all frames, in order.
RECURSIVE Concat(_)
Concat(frames) ==
    IF frames = <<>> THEN <<>>
    ELSE Head(frames).rows \o Concat(Tail(frames))

----------------------------------------------------------------------------
(* tabs_billing_terms_format: the billing terms composed from the combined *)
(* rate rows.                                                              *)

\* Series.astype(str) on a cell of an object column: a missing cell reads 'nan'.
AsStr(cell) == IF cell = NaN THEN "nan" ELSE cell

\* A cell of the column `header` of the combined frame, for a row of `frame`:
\* missing when the frame has no column of exactly that name.
CombinedCell(frame, header, cell) ==
    IF header \in Range(frame.columns) /\ cell # "" THEN cell ELSE NaN

BillingTerm(customer_id, tenant_id, name, contract_name, amount_1, event_to_track, integration_item_id, is_recurring) ==
    [customer_id |-> customer_id, tenant_id |-> tenant_id, name |-> name,
     contract_name |-> contract_name, amount_1 |-> amount_1,
     event_to_track |-> event_to_track, integration_item_id |-> integration_item_id,
     is_recurring |-> is_recurring, contract_id |-> ""]

\* The bug of composing a term only for the rows whose tenant has a customer.
FormatFrameResolvedOnly(frame, has_net_rate) ==
    LET kept == SelectSeq(frame.rows, LAMBDA row : row.customer_id # NaN)
    IN  [i \in 1..Len(kept) |->
            BillingTerm(kept[i].customer_id, kept[i].tenant_id,
                        CombinedCell(frame, "SKU Name", kept[i].sku_name),
                        kept[i].contract_name,
                        IF has_net_rate
                        THEN AsStr(CombinedCell(frame, "NET RATE", kept[i].net_rate))
                        ELSE NaN,
                        kept[i].event_to_track, kept[i].integration_item_id, "TRUE")]

\* The terms of the rows of one frame: the columns kept and renamed, amount_1
\* turned into text when the combined frame has a 'NET RATE' column at all, and
\* the hardcoded columns added.
FormatFrame(frame, has_net_rate) ==
    [i \in 1..Len(frame.rows) |->
        BillingTerm(frame.rows[i].customer_id, frame.rows[i].tenant_id,
                    CombinedCell(frame, "SKU Name", frame.rows[i].sku_name),
                    frame.rows[i].contract_name,
                    IF has_net_rate
                    THEN AsStr(CombinedCell(frame, "NET RATE", frame.rows[i].net_rate))
                    ELSE NaN,
                    frame.rows[i].event_to_track, frame.rows[i].integration_item_id,
                    "TRUE")]

RECURSIVE FormatFrames(_, _)
FormatFrames(frames, has_net_rate) ==
    IF frames = <<>> THEN <<>>
    ELSE FormatFrame(Head(frames), has_net_rate) \o FormatFrames(Tail(frames), has_net_rate)

tabs_billing_terms_format(frames) ==
    FormatFrames(frames, \E k \in 1..Len(frames) : "NET RATE" \in Range(frames[k].columns))

\* The code after the loop: resolve the ids in every frame, combine, return.
ResolveAndCombine ==
    /\ pc = "pb_files"
    /\ file_i > Len(archive)
    /\ all_dataframes' = [i \in 1..Len(all_dataframes) |-> ResolveFrame(all_dataframes[i])]
    /\ combined' = Concat(all_dataframes')
    /\ filtered_df' = tabs_billing_terms_format(all_dataframes')
    /\ pc' = "pb_done"
    /\ UNCHANGED <<rec_vars, run_vars, push_vars, archive, file_i, customer_files, errors>>

ReconcileIdle ==
    /\ raw_usage_df = <<>>
    /\ tabs_bt_contract = <<>>
    /\ enterprise_support_file = NoFile
    /\ tenant_to_customer_id = <<>>
    /\ resolved_df = <<>>
    /\ row_i = 1
    /\ usage_lookup = <<>>
    /\ invoice_mapping = <<>>
    /\ valid_billing_terms = {}
    /\ event_type_id_map = <<>>
    /\ enterprise_support_rows = <<>>
    /\ prepaid_rows = <<>>
    /\ output_rows = <<>>
    /\ output_keys = <<>>
    /\ contract_to_invoice = <<>>
    /\ customer_to_enterprise_pct = <<>>
    /\ enterprise_new_rows = <<>>
    /\ prepaid_new_rows = <<>>
    /\ output_df = <<>>
    /\ prepaid_seen = <<>>
    /\ aborted = FALSE

InitPriceBook ==
    /\ pc = "pb_start"
    /\ customers_data = Registry
    /\ ReconcileIdle
    /\ archive \in SeqsUpTo(EntryDomain, MaxFiles)
    /\ file_i = 1
    /\ customer_files = <<>>
    /\ all_dataframes = <<>>
    /\ errors = <<>>
    /\ combined = <<>>
    /\ filtered_df = <<>>
    /\ RunIdle
    /\ PushIdle

NextPriceBook ==
    \/ OpenArchive
    \/ IngestFile
    \/ ResolveAndCombine

SpecPriceBook == InitPriceBook /\ [][NextPriceBook]_vars

----------------------------------------------------------------------------
(* tabs_billing_terms_to_upload: the terms that the raw usage file meters. *)

\* The bug of reading every Tenant ID column as floats, blank cell or not.
matching_tuplesAsFloat(usage) ==
    {<<FloatStr(AsStr(usage[i].tenant_id)), AsStr(usage[i].sku_name), AsStr(usage[i].contract)>> :
        i \in 1..Len(usage)}

\* set(zip(raw_usage_df['Tenant ID'], raw_usage_df['SKU Name'], raw_usage_df['Contract'])),
\* each column turned into text.
matching_tuples(usage) ==
    {<<TenantIdsAsStr(usage)[i].tenant_id, AsStr(usage[i].sku_name), AsStr(usage[i].contract)>> :
        i \in 1..Len(usage)}

\* The bug of matching a term by its tenant and SKU alone.
TermMatchesWithoutContract(term, tuples) ==
    \E t \in tuples : t[1] = AsStr(term.tenant_id) /\ t[2] = AsStr(term.name)

\* The mask: (str(tenant_id), str(name), str(contract_name)) in matching_tuples
TermMatches(term, tuples) ==
    <<AsStr(term.tenant_id), AsStr(term.name), AsStr(term.contract_name)>> \in tuples

\* The bug of answering a file that cannot be used with no term at all.
tabs_billing_terms_to_uploadEmptyOnError(terms, usage, given, has_columns) ==
    IF ~given \/ ~has_columns THEN <<>>
    ELSE SelectSeq(terms, LAMBDA term : TermMatches(term, matching_tuples(usage)))

\* filtered_df_copy[mask]; the copy has its three key columns turned into text.
\* Without a file filtered_df is returned at once; a file of an unsupported type
\* returns it too, and a file without the required columns raises, and the
\* handler returns filtered_df as it came (`has_columns` is false for both).
tabs_billing_terms_to_upload(terms, usage, given, has_columns) ==
    IF ~given \/ ~has_columns THEN terms
    ELSE LET copy == [i \in 1..Len(terms) |->
                         [terms[i] EXCEPT !.tenant_id = AsStr(@), !.name = AsStr(@),
                                          !.contract_name = AsStr(@)]]
         IN  SelectSeq(copy, LAMBDA term : TermMatches(term, matching_tuples(usage)))

\* Step 2 of the processing run, skipped (`tabs_bt_clean_df = filtered_df`) when no
\* raw usage file was uploaded.  The run stops after step 1 when the price book
\* gave no billing term.
FilterBillingTerms ==
    /\ pc = "pb_done"
    /\ IF filtered_df = <<>>
       THEN /\ pc' = "stopped"
            /\ UNCHANGED tabs_bt_clean_df
       ELSE /\ tabs_bt_clean_df' =
                   IF raw_usage_given
                   THEN tabs_billing_terms_to_upload(filtered_df, raw_usage_df,
                                                     raw_usage_given, raw_usage_has_columns)
                   ELSE filtered_df
            /\ pc' = "bt_clean"
    /\ UNCHANGED <<rec_vars, pb_vars, raw_usage_has_columns, prepaid_file, tabs_bt_enterprise,
                   tabs_bt_prepaid_enterprise, prepaid_values, consumption_values,
                   push_vars>>

----------------------------------------------------------------------------
(* enterprise_support and prepaid: the synthetic billing terms.            *)

\* Series.unique(): each value once, first seen first.
RECURSIVE Unique(_, _)
Unique(cells, seen) ==
    IF cells = <<>> THEN seen
    ELSE Unique(Tail(cells),
                IF Head(cells) \in Range(seen) THEN seen ELSE Append(seen, Head(cells)))

\* tenant_to_customer_id of the two functions: every tenant id of the file that
\* is the tenant_id of a term, with the customer_id of the first such term as text.
RECURSIVE TenantsWithTerms(_, _, _)
TenantsWithTerms(tenant_ids, terms, map) ==
    IF tenant_ids = <<>> THEN map
    ELSE LET matching_rows == {i \in 1..Len(terms) : AsStr(terms[i].tenant_id) = Head(tenant_ids)}
         IN  TenantsWithTerms(Tail(tenant_ids), terms,
                 IF matching_rows = {} THEN map
                 ELSE DictPut(map, Head(tenant_ids),
                              AsStr(terms[FirstOf(matching_rows)].customer_id)))

\* new_rows: one row for each item of the map, with the hardcoded values and the
\* contract_name of the first term of that customer_id.
SyntheticTerms(terms, map, name, amount_1, event_to_track, is_recurring) ==
    [k \in 1..Len(map) |->
        LET matching_row ==
                terms[FirstOf({i \in 1..Len(terms) : AsStr(terms[i].customer_id) = map[k].v})]
        IN  BillingTerm(map[k].v, map[k].k, name, matching_row.contract_name, amount_1,
                        event_to_track, "", is_recurring)]

enterprise_support_event_id == "a12f94a4-6634-4e98-9587-7700b42808ed"

\* The bug of appending to the working copy, whose customer_id is text.
enterprise_supportFromCopy(terms, file) ==
    IF \/ ~file.given
       \/ file.extension \notin {"csv", "xlsx", "xls"}
       \/ ~file.has_tenant_id
       \/ file.columns < min_pct_columns
    THEN terms
    ELSE LET tenant_ids == [i \in 1..Len(file.rows) |-> TenantIdsAsStr(file.rows)[i].tenant_id]
             map == TenantsWithTerms(Unique(tenant_ids, <<>>), terms, <<>>)
             copy == [i \in 1..Len(terms) |-> [terms[i] EXCEPT !.customer_id = AsStr(@)]]
         IN  copy \o SyntheticTerms(terms, map, "Enterprise Support", "1",
                                    enterprise_support_event_id, "FALSE")

enterprise_support(terms, file) ==
    IF \/ ~file.given
       \/ file.extension \notin {"csv", "xlsx", "xls"}
       \/ ~file.has_tenant_id
       \/ file.columns < min_pct_columns
    THEN terms
    ELSE LET tenant_ids == [i \in 1..Len(file.rows) |-> TenantIdsAsStr(file.rows)[i].tenant_id]
             map == TenantsWithTerms(Unique(tenant_ids, <<>>), terms, <<>>)
         IN  terms \o SyntheticTerms(terms, map, "Enterprise Support", "1",
                                     enterprise_support_event_id, "FALSE")

\* Step 3 of the processing run.
AddEnterpriseSupport ==
    /\ pc = "bt_clean"
    /\ tabs_bt_enterprise' = enterprise_support(tabs_bt_clean_df, enterprise_support_file)
    /\ pc' = "bt_enterprise"
    /\ UNCHANGED <<rec_vars, pb_vars, raw_usage_has_columns, prepaid_file, tabs_bt_clean_df,
                   tabs_bt_prepaid_enterprise, prepaid_values, consumption_values,
                   push_vars>>

\* pd.to_numeric(..., errors='coerce').fillna(0).astype(int).astype(str): a whole
\* number reads without '.0', anything else reads '0'.
PrepaidTenantStr(cell) ==
    IF cell \in {"40", "41", "99", "227"} THEN cell ELSE "0"

min_prepaid_columns == 2

prepaid_event_id == "48ef8004-9735-4830-99fc-801161eb8d7f"

prepaid(terms, file) ==
    IF \/ ~file.given
       \/ file.extension \notin {"csv", "xlsx", "xls"}
       \/ file.columns < min_prepaid_columns
    THEN terms
    ELSE LET tenant_ids == [i \in 1..Len(file.rows) |-> PrepaidTenantStr(file.rows[i].tenant_id)]
             map == TenantsWithTerms(Unique(tenant_ids, <<>>), terms, <<>>)
         IN  terms \o SyntheticTerms(terms, map, "Prepaid", "-1", prepaid_event_id, "TRUE")

\* Step 4 of the processing run.
AddPrepaid ==
    /\ pc = "bt_enterprise"
    /\ tabs_bt_prepaid_enterprise' = prepaid(tabs_bt_enterprise, prepaid_file)
    /\ pc' = "bt_prepaid"
    /\ UNCHANGED <<rec_vars, pb_vars, raw_usage_has_columns, prepaid_file, tabs_bt_clean_df,
                   tabs_bt_enterprise, prepaid_values, consumption_values,
                   push_vars>>

----------------------------------------------------------------------------
(* create_contracts: one contract for each customer of the billing terms.  *)

\* [str(cid) for cid in tabs_bt_contract['customer_id'].unique() if pd.notna(cid)]
ContractCustomers(terms) ==
    {terms[i].customer_id : i \in {j \in 1..Len(terms) : terms[j].customer_id # NaN}}

\* The id the platform gives the contract it creates for a customer.
ContractIdOf(customer_id) ==
    CASE customer_id = "cust-1" -> "contract-1"
      [] customer_id = "cust-2" -> "contract-2"
      [] OTHER                  -> "contract-0"

\* `created` is the set of customers for which the create_contract call succeeded.
\* When there is one, customer_id is turned into text and contract_id is mapped
\* from it, '' where the customer has no contract.
create_contracts(terms, created) ==
    IF terms = <<>> \/ created = {} THEN terms
    ELSE [i \in 1..Len(terms) |->
             [terms[i] EXCEPT
                 !.customer_id = AsStr(@),
                 !.contract_id = IF AsStr(terms[i].customer_id) \in created
                                 THEN ContractIdOf(AsStr(terms[i].customer_id))
                                 ELSE terms[i].contract_id]]

\* unique_customer_ids, in the order of `for customer_id in unique_customer_ids`
unique_customer_ids(terms) ==
    Unique([i \in 1..Len(SelectSeq(terms, LAMBDA term : term.customer_id # NaN)) |->
               SelectSeq(terms, LAMBDA term : term.customer_id # NaN)[i].customer_id], <<>>)

\* The bug of calling create_contract for every term of the customer.
CreateContractCallsPerTerm(terms, created, raised) ==
    LET rows == SelectSeq(terms, LAMBDA term : term.customer_id # NaN)
    IN  [k \in 1..Len(rows) |->
            [customer_id |-> rows[k].customer_id,
             outcome |-> IF rows[k].customer_id \in created THEN "created"
                         ELSE IF rows[k].customer_id \in raised THEN "raised"
                         ELSE "rejected"]]

\* The calls of the loop: one create_contract(customer_id, contract_name) for every
\* item of unique_customer_ids, whatever the outcome of the calls before it.  A
\* call returns the contract, returns None or raises.
CreateContractCalls(terms, created, raised) ==
    LET ids == unique_customer_ids(terms)
    IN  [k \in 1..Len(ids) |->
            [customer_id |-> ids[k],
             outcome |-> IF ids[k] \in created THEN "created"
                         ELSE IF ids[k] \in raised THEN "raised"
                         ELSE "rejected"]]

\* The first customer, in call order, whose call did not create a contract.
FirstNotCreated(terms, created) ==
    LET ids == unique_customer_ids(terms)
        left == {k \in 1..Len(ids) : ids[k] \notin created}
    IN  IF left = {} THEN {} ELSE {ids[FirstOf(left)]}

\* The bug of creating the contracts before the Prepaid rows are added.
CreateContractsBeforePrepaid ==
    /\ pc = "bt_enterprise"
    /\ tabs_bt_contract' = create_contracts(tabs_bt_enterprise, ContractCustomers(tabs_bt_enterprise))
    /\ contract_calls' = CreateContractCalls(tabs_bt_enterprise, ContractCustomers(tabs_bt_enterprise), {})
    /\ pc' = "bt_contract"
    /\ UNCHANGED <<customers_data, raw_usage_df, enterprise_support_file,
                   tenant_to_customer_id, resolved_df, row_i, usage_lookup, invoice_mapping,
                   valid_billing_terms, event_type_id_map, enterprise_support_rows,
                   prepaid_rows, output_rows, output_keys, contract_to_invoice,
                   customer_to_enterprise_pct, enterprise_new_rows, prepaid_new_rows,
                   output_df, prepaid_seen, aborted, pb_vars, run_vars, raw_usage_given,
                   obligations, invoices_result, event_attempts, bulk_result>>

\* Step 5 of the processing run.  The platform answers every call on its own:
\* `created` are the customers whose call returned a contract, `raised` those
\* whose call raised; the other calls returned None.
CreateContracts ==
    /\ pc = "bt_prepaid"
    /\ \E created \in SUBSET ContractCustomers(tabs_bt_prepaid_enterprise) :
       \E raised \in {{}, FirstNotCreated(tabs_bt_prepaid_enterprise, created)} :
           /\ tabs_bt_contract' = create_contracts(tabs_bt_prepaid_enterprise, created)
           /\ contract_calls' =
                  CreateContractCalls(tabs_bt_prepaid_enterprise, created, raised)
    /\ pc' = "bt_contract"
    /\ UNCHANGED <<customers_data, raw_usage_df, enterprise_support_file,
                   tenant_to_customer_id, resolved_df, row_i, usage_lookup, invoice_mapping,
                   valid_billing_terms, event_type_id_map, enterprise_support_rows,
                   prepaid_rows, output_rows, output_keys, contract_to_invoice,
                   customer_to_enterprise_pct, enterprise_new_rows, prepaid_new_rows,
                   output_df, prepaid_seen, aborted, pb_vars, run_vars, raw_usage_given,
                   obligations, invoices_result, event_attempts, bulk_result>>

----------------------------------------------------------------------------
(* create_invoices and push_bt: the billing terms pushed to the platform.  *)

\* The rows that push_bt skips: `if not contract_id or pd.isna(contract_id)`.
MissingContractId(term) == term.contract_id = "" \/ term.contract_id = NaN

\* The rows for which the POST created the obligation: those with a contract_id
\* that the platform did not reject.
ObligationsCreated(terms, rejected) ==
    SelectSeq([i \in 1..Len(terms) |-> i],
              LAMBDA i : ~MissingContractId(terms[i]) /\ i \notin rejected)

\* The status of push_bt's response: 201 when at least one row succeeded.
push_bt_status(terms, rejected) ==
    IF ObligationsCreated(terms, rejected) # <<>> THEN 201 ELSE 400

\* result_df['push_status']: one value for all rows, after the status of the
\* response.
create_invoices(terms, rejected) ==
    [i \in 1..Len(terms) |->
        [push_status |-> IF push_bt_status(terms, rejected) = 201 THEN "SUCCESS" ELSE "FAILED",
         name |-> terms[i].name,
         customer_id |-> terms[i].customer_id]]

\* The sets of rows that the platform rejects, as far as the model tells them
\* apart: none, the first, the last, all.
RejectedRows(terms) ==
    {{}, {1} \cap DOMAIN terms, {Len(terms)} \cap DOMAIN terms, DOMAIN terms}

\* Step 6 of the processing run; it changes none of the terms, and step 7 is
\* create_tabs_ready_usage.
CreateInvoices ==
    /\ pc = "bt_contract"
    /\ \E rejected \in RejectedRows(tabs_bt_contract) :
           /\ obligations' = ObligationsCreated(tabs_bt_contract, rejected)
           /\ invoices_result' = create_invoices(tabs_bt_contract, rejected)
    /\ pc' = "start"
    /\ UNCHANGED <<rec_vars, pb_vars, run_vars, raw_usage_given, contract_calls,
                   event_attempts, bulk_result>>

\* Step 7 is skipped when no raw usage file was uploaded.
SkipTabsReadyUsage ==
    /\ pc = "start"
    /\ ~raw_usage_given
    /\ pc' = "skipped"
    /\ UNCHANGED <<rec_vars, pb_vars, run_vars, push_vars>>

----------------------------------------------------------------------------
(* generate_prepaid_report_data and generate_commit_consumption_data.      *)

\* event_type_name.str.contains('Prepaid', case=False, na=False)
ContainsPrepaid(event_type_name) == event_type_name \in {"Prepaid", "Prepaid Credits"}

\* customer_to_tenant[customer_id] = tenant_id, for every term in turn
RECURSIVE CustomerToTenant(_, _)
CustomerToTenant(terms, map) ==
    IF terms = <<>> THEN map
    ELSE LET customer_id == AsStr(Head(terms).customer_id)
             tenant_id == AsStr(Head(terms).tenant_id)
         IN  CustomerToTenant(Tail(terms),
                 IF customer_id # "" /\ tenant_id # "" /\ customer_id # "nan"
                 THEN DictPut(map, customer_id, tenant_id)
                 ELSE map)

\* The bug of adding up every event of the tenant, Prepaid or not.
RECURSIVE PrepaidValuesOfEveryEvent(_, _, _)
PrepaidValuesOfEveryEvent(rows, customer_to_tenant, values) ==
    IF rows = <<>> THEN values
    ELSE LET row == Head(rows)
             tenant_id == DictGet(customer_to_tenant, row.customer_id, "")
         IN  PrepaidValuesOfEveryEvent(Tail(rows), customer_to_tenant,
                 IF DictHas(customer_to_tenant, row.customer_id)
                 THEN DictPut(values, tenant_id, DictGet(values, tenant_id, 0) + row.value)
                 ELSE values)

\* prepaid_values[tenant_id] += value_float over the Prepaid rows; in cents.
RECURSIVE PrepaidValues(_, _, _)
PrepaidValues(rows, customer_to_tenant, values) ==
    IF rows = <<>> THEN values
    ELSE LET row == Head(rows)
             tenant_id == DictGet(customer_to_tenant, row.customer_id, "")
         IN  PrepaidValues(Tail(rows), customer_to_tenant,
                 IF ContainsPrepaid(row.event_type_name)
                    /\ DictHas(customer_to_tenant, row.customer_id)
                 THEN DictPut(values, tenant_id, DictGet(values, tenant_id, 0) + row.value)
                 ELSE values)

generate_prepaid_report_data(usage_df, terms) ==
    IF usage_df = <<>> \/ terms = <<>> THEN <<>>
    ELSE PrepaidValues(usage_df, CustomerToTenant(terms, <<>>), <<>>)

\* customer_to_info[customer_id] = (tenant_id, contract_name), for every term in turn
RECURSIVE CustomerToInfo(_, _)
CustomerToInfo(terms, map) ==
    IF terms = <<>> THEN map
    ELSE LET customer_id == AsStr(Head(terms).customer_id)
         IN  CustomerToInfo(Tail(terms),
                 IF customer_id # "" /\ customer_id # "nan"
                 THEN DictPut(map, customer_id,
                              <<AsStr(Head(terms).tenant_id), AsStr(Head(terms).contract_name)>>)
                 ELSE map)

\* amount_lookup[(customer_id, name)] = amount_float, for every term in turn; the
\* amount in tenths, or the float nan that float('nan') is.
RECURSIVE AmountLookup(_, _)
AmountLookup(terms, map) ==
    IF terms = <<>> THEN map
    ELSE LET customer_id == AsStr(Head(terms).customer_id)
             name == AsStr(Head(terms).name)
         IN  AmountLookup(Tail(terms),
                 IF customer_id # "" /\ name # "" /\ customer_id # "nan"
                 THEN DictPut(map, <<customer_id, name>>,
                              [tenths |-> ParseAmount(Head(terms).amount_1),
                               nan |-> AmountIsNaN(Head(terms).amount_1)])
                 ELSE map)

\* The bug of taking the Enterprise Support events out of the consumption too.
CountsForConsumptionWithoutEnterprise(event_type_name) ==
    ~ContainsPrepaid(event_type_name) /\ ~is_enterprise_support(event_type_name)

\* filtered_usage: the rows whose name does not contain 'Prepaid'.
CountsForConsumption(event_type_name) == ~ContainsPrepaid(event_type_name)

\* consumption_values[(tenant_id, contract_name)] += amount_1 * meter_float; in
\* mills, or the float nan once a nan amount has entered the sum.
RECURSIVE ConsumptionValues(_, _, _, _)
ConsumptionValues(rows, customer_to_info, amount_lookup, values) ==
    IF rows = <<>> THEN values
    ELSE LET row == Head(rows)
             key == DictGet(customer_to_info, row.customer_id, <<"", "">>)
             amount_1 == DictGet(amount_lookup, <<row.customer_id, row.event_type_name>>,
                                 [tenths |-> 0, nan |-> FALSE])
             sofar == DictGet(values, key, [mills |-> 0, nan |-> FALSE])
             nan == sofar.nan \/ amount_1.nan
         IN  ConsumptionValues(Tail(rows), customer_to_info, amount_lookup,
                 IF CountsForConsumption(row.event_type_name)
                    /\ DictHas(customer_to_info, row.customer_id)
                 THEN DictPut(values, key,
                              [mills |-> IF nan THEN 0
                                         ELSE sofar.mills + amount_1.tenths * row.value,
                               nan |-> nan])
                 ELSE values)

generate_commit_consumption_data(usage_df, terms) ==
    IF usage_df = <<>> \/ terms = <<>> THEN <<>>
    ELSE ConsumptionValues(usage_df, CustomerToInfo(terms, <<>>), AmountLookup(terms, <<>>),
                           <<>>)

\* The "Update Prepaid Sheet" button, shown with the usage output when that is
\* not empty.
UpdatePrepaidSheet ==
    /\ pc = "done"
    /\ output_df # <<>>
    /\ prepaid_values' = generate_prepaid_report_data(output_df, tabs_bt_contract)
    /\ pc' = "prepaid_reported"
    /\ UNCHANGED <<rec_vars, pb_vars, raw_usage_has_columns, prepaid_file, tabs_bt_clean_df,
                   tabs_bt_enterprise, tabs_bt_prepaid_enterprise, consumption_values,
                   push_vars>>

\* The "Update Commit Consumption Sheet" button.
UpdateCommitConsumptionSheet ==
    /\ pc = "prepaid_reported"
    /\ consumption_values' = generate_commit_consumption_data(output_df, tabs_bt_contract)
    /\ pc' = "reported"
    /\ UNCHANGED <<rec_vars, pb_vars, raw_usage_has_columns, prepaid_file, tabs_bt_clean_df,
                   tabs_bt_enterprise, tabs_bt_prepaid_enterprise, prepaid_values,
                   push_vars>>

----------------------------------------------------------------------------
(* create_usage_events_bulk: the usage events pushed to the platform.      *)

\* str(uuid.uuid4()), made anew in every turn of the loop: the i-th key made.
IdempotencyKey(i) == i

\* The calls create_usage_event(event_data, idempotency_key), in order; `index`
\* is the position of the event in the input, from 0.  A call whose request
\* raises returns success False like one that the platform rejects.
EventAttempts(events, failing, raising) ==
    [i \in 1..Len(events) |->
        [index |-> i - 1,
         customer_id |-> events[i].customer_id,
         idempotency_key |-> IdempotencyKey(i),
         outcome |-> IF i \in raising THEN "raised"
                     ELSE IF i \in failing THEN "rejected"
                     ELSE "created"]]

\* The bug of giving up at the first event that fails.
create_usage_events_bulkStopping(events, failing) ==
    LET bad == {i \in 1..Len(events) : i \in failing}
        last == IF bad = {} THEN Len(events) ELSE FirstOf(bad)
        indexes == [i \in 1..last |-> i]
    IN  [total |-> Len(events),
         success_count |-> Len(SelectSeq(indexes, LAMBDA i : i \notin failing)),
         failure_count |-> Len(SelectSeq(indexes, LAMBDA i : i \in failing)),
         successes |-> [k \in 1..Len(SelectSeq(indexes, LAMBDA i : i \notin failing)) |->
                           SelectSeq(indexes, LAMBDA i : i \notin failing)[k] - 1],
         failures |-> [k \in 1..Len(SelectSeq(indexes, LAMBDA i : i \in failing)) |->
                          SelectSeq(indexes, LAMBDA i : i \in failing)[k] - 1]]

\* results: the counts and the two lists of event indexes.
create_usage_events_bulk(events, failing) ==
    LET indexes == [i \in 1..Len(events) |-> i]
        good == SelectSeq(indexes, LAMBDA i : i \notin failing)
        bad == SelectSeq(indexes, LAMBDA i : i \in failing)
    IN  [total |-> Len(events),
         success_count |-> Len(good),
         failure_count |-> Len(bad),
         successes |-> [k \in 1..Len(good) |-> good[k] - 1],
         failures |-> [k \in 1..Len(bad) |-> bad[k] - 1]]

\* The sets of events that fail, as far as the model tells them apart: none, the
\* first, the last, all.
FailingEvents(events) ==
    {{}, {1} \cap DOMAIN events, {Len(events)} \cap DOMAIN events, DOMAIN events}

\* The "Push Usage Events to Tabs" button, shown with the usage output when that
\* is not empty.
PushUsageEvents ==
    /\ pc = "reported"
    /\ output_df # <<>>
    /\ \E failing \in FailingEvents(output_df) :
       \E raising \in {{}, {1} \cap failing} :
           /\ event_attempts' = EventAttempts(output_df, failing, raising)
           /\ bulk_result' = create_usage_events_bulk(output_df, failing)
    /\ pc' = "pushed"
    /\ UNCHANGED <<rec_vars, pb_vars, run_vars, raw_usage_given, contract_calls,
                   obligations, invoices_result>>

----------------------------------------------------------------------------
(* The processing run of main.py: the price book, the billing terms, the   *)
(* usage events and the two reports.                                       *)

\* Tenant 40 under two contracts, the second with a formula error for a rate;
\* tenant 41 with a blank rate; tenant 227, which has no customer.
Acme1 == Entry("40_Acme_SFDC#1.xlsx", "ok", FullHeader, <<RateRow("Widget", "10.00")>>)
Acme2 == Entry("40_Acme_SFDC#2.csv", "ok", FullHeader,
               <<RateRow("Widget", "2"), RateRow("Gadget", "#REF!")>>)
Solo1 == Entry("41_Solo_SFDC#1.csv", "ok", FullHeader,
               <<RateRow("Widget", "1"), RateRow("Gadget", "")>>)
Sita3 == Entry("227_Sita_SFDC#3.csv", "ok", FullHeader, <<RateRow("Sprocket", "5")>>)

RunArchives ==
    { <<Acme1>>,
      <<Acme1, Acme2>>,
      <<Acme1, Solo1>>,
      <<Acme2, Sita3>>,
      <<Entry("summary.csv", "ok", FullHeader, <<RateRow("Widget", "5")>>)>> }

\* The raw usage files: rows, and whether the file has the required columns.
UsageFile(has_columns, rows) == [given |-> TRUE, has_columns |-> has_columns, rows |-> rows]

\* No raw usage file was uploaded: steps 2 and 7 are skipped.
NoUsageFile == [given |-> FALSE, has_columns |-> FALSE, rows |-> <<>>]

RunUsageFiles ==
    { UsageFile(TRUE, <<UsageRowOf("40", "Acme", "Widget", "SFDC#1", "5")>>),
      UsageFile(TRUE, <<UsageRowOf("40", "Acme", "Widget", "SFDC#1", "5"),
                        UsageRowOf("40", "Acme", "Widget", "SFDC#2", "100"),
                        UsageRowOf("40", "Acme", "Gadget", "SFDC#2", "50")>>),
      UsageFile(TRUE, <<UsageRowOf("40", "Acme", "Widget", "SFDC#1", "5"),
                        UsageRowOf("41", "Solo", "Widget", "SFDC#1", "2.5"),
                        UsageRowOf("41", "Solo", "Gadget", "SFDC#1", "#REF!")>>),
      UsageFile(TRUE, <<UsageRowOf("41", "Solo", "Widget", "SFDC#1", "5"),
                        UsageRowOf("41", "Solo", "Gadget", "SFDC#1", "50")>>),
      UsageFile(TRUE, <<UsageRowOf("40", "Acme", "Widget", "SFDC#1", "5"),
                        UsageRowOf(NaN, "Total", NaN, NaN, "5")>>),
      UsageFile(TRUE, <<UsageRowOf("99", "Ghost", "Widget", "SFDC#1", "5")>>),
      UsageFile(TRUE, <<UsageRowOf("40", "Acme", "Widget", "SFDC#2", "100"),
                        UsageRowOf("227", "Sita", "Sprocket", "SFDC#3", "5")>>),
      UsageFile(FALSE, <<>>),
      NoUsageFile }

RunPctFiles ==
    { NoFile,
      PctFile("csv", TRUE, 5, <<PctRow("40", "10"), PctRow("41", "10"), PctRow("99", "10"),
                                PctRow("40", "10")>>),
      PctFile("csv", TRUE, 5, <<PctRow("40", "10"), PctRow(NaN, NaN)>>),
      PctFile("pdf", TRUE, 5, <<PctRow("40", "10")>>),
      PctFile("csv", FALSE, 5, <<PctRow("40", "10")>>) }

\* The Prepaid file: column B holds the tenant ids.
PrepaidFile(extension, columns, tenant_ids) ==
    [given |-> TRUE, extension |-> extension, has_tenant_id |-> TRUE, columns |-> columns,
     rows |-> [i \in 1..Len(tenant_ids) |-> PctRow(tenant_ids[i], NaN)]]

RunPrepaidFiles ==
    { NoFile,
      PrepaidFile("xlsx", 2, <<"40", "41", "99", "40", "227">>),
      PrepaidFile("csv", 2, <<"40", NaN>>),
      PrepaidFile("csv", 1, <<"40">>) }

\* The same customers with their fields in another order: the first 'Tenant ID'
\* with a value wins, and so does the first 'Account #' when there is none.
RegistryReordered ==
    << [id |-> "cust-1", customFields |-> <<Field("Tenant ID", "40"), Field("Tenant ID", "41"),
                                            Field("Account #", "41")>>],
       [id |-> "cust-2", customFields |-> <<Field("Account #", "41"), Field("Account #", "40"),
                                            Field("Tenant ID", "")>>],
       [id |-> "cust-3", customFields |-> <<>>] >>

Registries == {Registry, RegistryReordered}

InitRun ==
    /\ pc = "pb_start"
    /\ customers_data \in Registries
    /\ archive \in RunArchives
    /\ \E file \in RunUsageFiles :
           /\ raw_usage_df = file.rows
           /\ raw_usage_has_columns = file.has_columns
           /\ raw_usage_given = file.given
    /\ enterprise_support_file \in RunPctFiles
    /\ prepaid_file \in RunPrepaidFiles
    /\ tabs_bt_contract = <<>>
    /\ tenant_to_customer_id = <<>>
    /\ resolved_df = <<>>
    /\ row_i = 1
    /\ usage_lookup = <<>>
    /\ invoice_mapping = <<>>
    /\ valid_billing_terms = {}
    /\ event_type_id_map = <<>>
    /\ enterprise_support_rows = <<>>
    /\ prepaid_rows = <<>>
    /\ output_rows = <<>>
    /\ output_keys = <<>>
    /\ contract_to_invoice = <<>>
    /\ customer_to_enterprise_pct = <<>>
    /\ enterprise_new_rows = <<>>
    /\ prepaid_new_rows = <<>>
    /\ output_df = <<>>
    /\ prepaid_seen = <<>>
    /\ aborted = FALSE
    /\ file_i = 1
    /\ customer_files = <<>>
    /\ all_dataframes = <<>>
    /\ errors = <<>>
    /\ combined = <<>>
    /\ filtered_df = <<>>
    /\ tabs_bt_clean_df = <<>>
    /\ tabs_bt_enterprise = <<>>
    /\ tabs_bt_prepaid_enterprise = <<>>
    /\ prepaid_values = <<>>
    /\ consumption_values = <<>>
    /\ contract_calls = <<>>
    /\ obligations = <<>>
    /\ invoices_result = <<>>
    /\ event_attempts = <<>>
    /\ bulk_result = NoBulkResult

NextRun ==
    \/ OpenArchive
    \/ IngestFile
    \/ ResolveAndCombine
    \/ FilterBillingTerms
    \/ AddEnterpriseSupport
    \/ AddPrepaid
    \/ CreateContracts
    \/ CreateInvoices
    \/ SkipTabsReadyUsage
    \/ EarlyReturn
    \/ RejectUsageFile
    \/ ResolveTenants
    \/ AggregateRow
    \/ BuildInvoiceMapping
    \/ ScanBillingTerms
    \/ EmitUsageRows
    \/ ReadEnterprisePct
    \/ ComputeEnterpriseRow
    \/ AppendEnterpriseRows
    \/ ComputePrepaidRow
    \/ AppendPrepaidRows
    \/ UpdatePrepaidSheet
    \/ UpdateCommitConsumptionSheet
    \/ PushUsageEvents

SpecRun == InitRun /\ [][NextRun]_vars

----------------------------------------------------------------------------
(* Properties of create_tabs_ready_usage.                                  *)

\* The sum of a function's values.
RECURSIVE SumFn(_)
SumFn(f) ==
    IF DOMAIN f = {} THEN 0
    ELSE LET i == CHOOSE i \in DOMAIN f : TRUE
         IN  f[i] + SumFn([j \in DOMAIN f \ {i} |-> f[j]])

\* The meter literals with their value in cents, as written in the usage file.
MeterCents(cell) ==
    CASE cell = "5" -> 500 [] cell = "2.5" -> 250 [] cell = "100" -> 10000
      [] cell = "50" -> 5000 [] cell = "0.25" -> 25 [] OTHER -> 0

\* The key of a resolved row, read off its columns.
RowKey(row) == <<row.customer_id, row.sku_name, row.contract, row.tenant_name>>

\* The rows the aggregation loop has been through.
Aggregated ==
    IF pc = "start" THEN 0
    ELSE IF pc = "aggregate" THEN row_i - 1
    ELSE Len(resolved_df)

RowsOfTriple(t) ==
    {i \in 1..Len(resolved_df) :
        <<resolved_df[i].customer_id, resolved_df[i].sku_name, resolved_df[i].contract>> = t}

\* The regular events that came from a (customer_id, SKU, contract) triple.
EventsOfTriple(t) ==
    {i \in 1..Len(output_keys) :
        /\ <<output_keys[i][1], output_keys[i][2], output_keys[i][3]>> = t
        /\ i <= Len(output_df)
        /\ output_df[i].customer_id = t[1]
        /\ output_df[i].event_type_name = t[2]}

\* The triples that have a non-synthetic billing term and a resolved usage row.
BilledTriples == {t \in valid_billing_terms : RowsOfTriple(t) # {}}

AmountTenths(cell) ==
    CASE cell = "2" -> 20 [] cell = "1" -> 10 [] cell = "0.1" -> 1 [] cell = "-1" -> -10
      [] OTHER -> 0

\* The amount an event is priced with: that of the first term, in term order, with
\* the event's customer_id and name (0 when the customer has no such term).
PricedAmount(ev) ==
    LET same == {i \in 1..Len(tabs_bt_contract) :
                    /\ tabs_bt_contract[i].customer_id = ev.customer_id
                    /\ tabs_bt_contract[i].name = ev.event_type_name}
    IN  IF same = {} THEN 0
        ELSE AmountTenths(tabs_bt_contract[CHOOSE i \in same : \A j \in same : i <= j].amount_1)

\* Sum of value * amount over the events of a customer among output_df[1..n]; in mills.
ContributionSum(customer_id, n) ==
    LET own == {i \in 1..n : output_df[i].customer_id = customer_id}
    IN  SumFn([i \in own |-> output_df[i].value * PricedAmount(output_df[i])])

\* The percentage cells as written, in thousandths.
PctThousandths(cell) ==
    CASE cell = "10" -> 10000 [] cell = "10%" -> 10000 [] cell = "2.5" -> 2500
      [] cell = "0.1" -> 100 [] OTHER -> -1

\* p' of a customer: p / 100 when p > 1 and p otherwise, p being the last readable
\* percentage the file gives for a tenant of that customer; 0 when it gives none.
NormalizedPct(customer_id) ==
    LET file == enterprise_support_file
        given == {i \in 1..Len(file.rows) :
                     /\ PctThousandths(file.rows[i].pct) >= 0
                     /\ DictGet(tenant_to_customer_id, file.rows[i].tenant_id, "") = customer_id}
    IN  IF ~UsablePctFile(file) \/ given = {} THEN 0
        ELSE LET p == PctThousandths(file.rows[CHOOSE i \in given : \A j \in given : j <= i].pct)
             IN  IF p > 1000 THEN p \div 100 ELSE p

Regulars == Len(output_rows)
Synthetics == Len(output_rows) + Len(enterprise_new_rows)

\* C3: the value of the event of every Enterprise Support term of a customer with a
\* positive percentage is round_half_up(S * p', 2), S being the sum of value * amount
\* over the customer's regular events.
C3_EnterpriseSupportValue ==
    (pc = "done" /\ ~aborted) =>
        \A j \in 1..Len(enterprise_support_rows) :
            LET info == enterprise_support_rows[j]
                pct == NormalizedPct(info.customer_id)
            IN  /\ Len(output_df) >= Regulars + j
                /\ output_df[Regulars + j].customer_id = info.customer_id
                /\ output_df[Regulars + j].event_type_name = info.name
                /\ pct > 0 =>
                       output_df[Regulars + j].value
                           = RoundHalfUp(ContributionSum(info.customer_id, Regulars) * pct,
                                         10000)

\* The example of the specification: events (100, amount 2) and (50, amount 1) with
\* percentage 10 give 25.00.
C3_Witness ==
    /\ pc = "done" /\ ~aborted
    /\ tabs_bt_contract = <<W1, G1, E1, P1>>
    /\ Len(output_rows) = 2
    /\ {output_rows[1].value, output_rows[2].value} = {10000, 5000}
    /\ enterprise_support_file.rows = <<PctRow("40", "10")>>
    /\ Len(enterprise_new_rows) = 1
    /\ output_df[3].event_type_name = "Enterprise Support"
    /\ output_df[3].value = 2500

\* C4: the value of the event of every Prepaid term is round_half_up of the sum of
\* value * amount over the customer's regular and Enterprise Support events; no
\* Prepaid event is part of any such sum.
C4_PrepaidValue ==
    (pc = "done" /\ ~aborted) =>
        /\ Len(output_df) = Synthetics + Len(prepaid_rows)
        /\ \A j \in 1..Len(prepaid_rows) :
               LET info == prepaid_rows[j]
               IN  /\ output_df[Synthetics + j].customer_id = info.customer_id
                   /\ output_df[Synthetics + j].event_type_name = info.name
                   /\ output_df[Synthetics + j].value
                          = RoundHalfUp(ContributionSum(info.customer_id, Synthetics), 10)

\* The same customer: regular events worth 250.00, Enterprise Support 25.00,
\* Prepaid 275.00.
C4_Witness ==
    /\ pc = "done" /\ ~aborted
    /\ tabs_bt_contract = <<W1, G1, E1, P1>>
    /\ Len(output_df) = 4
    /\ output_df[3].value = 2500
    /\ output_df[4].event_type_name = "Prepaid"
    /\ output_df[4].value = 27500

\* C5: every frame a Prepaid value was computed from already holds the Enterprise
\* Support event of every Enterprise Support term of that customer.
C5_EnterpriseBeforePrepaid ==
    \A k \in 1..Len(prepaid_seen) :
        \A j \in 1..Len(enterprise_support_rows) :
            enterprise_support_rows[j].customer_id = prepaid_rows[k].customer_id =>
                /\ Len(prepaid_seen[k]) >= Regulars + j
                /\ prepaid_seen[k][Regulars + j].customer_id = prepaid_rows[k].customer_id
                /\ prepaid_seen[k][Regulars + j].event_type_name
                       = enterprise_support_rows[j].name

\* A Prepaid value has been computed for a customer whose Enterprise Support event
\* is worth something.
C5_Witness ==
    /\ Len(prepaid_seen) >= 1
    /\ \E j \in 1..Len(enterprise_new_rows) :
           /\ enterprise_new_rows[j].customer_id = prepaid_rows[1].customer_id
           /\ enterprise_new_rows[j].value > 0

\* The customer a tenant id of the usage file resolves to ("" for none), read off
\* the registry: tenant "40" is cust-1, tenant "41" is cust-2.
CustomerOfTenant(tenant_id) ==
    CASE tenant_id = "40" -> "cust-1" [] tenant_id = "41" -> "cust-2" [] OTHER -> ""

SyntheticName(name) ==
    name \in {"Enterprise Support", "Premium Enterprise Support", "Prepaid", "Prepaid Credits"}

\* The triples of the non-synthetic billing terms.
RegularTriples ==
    {<<tabs_bt_contract[i].customer_id, tabs_bt_contract[i].name,
       tabs_bt_contract[i].contract_name>> :
        i \in {j \in 1..Len(tabs_bt_contract) :
                  /\ tabs_bt_contract[j].customer_id \notin {"", "nan"}
                  /\ ~SyntheticName(tabs_bt_contract[j].name)}}

\* The keys of the raw usage rows that resolve to a customer and have a regular term.
BillableKeys ==
    {<<CustomerOfTenant(raw_usage_df[i].tenant_id), raw_usage_df[i].sku_name,
       raw_usage_df[i].contract, raw_usage_df[i].tenant_name>> :
        i \in {j \in 1..Len(raw_usage_df) :
                  /\ CustomerOfTenant(raw_usage_df[j].tenant_id) # ""
                  /\ <<CustomerOfTenant(raw_usage_df[j].tenant_id), raw_usage_df[j].sku_name,
                       raw_usage_df[j].contract>> \in RegularTriples}}

Emitted == pc \in {"es_pct", "es_rows", "prepaid", "done"} /\ tabs_bt_contract # <<>>

C9_SyntheticNeverFromUsage ==
    (pc = "done" /\ ~aborted) =>
        /\ \A i \in 1..Len(output_rows) : ~SyntheticName(output_rows[i].event_type_name)
        /\ \A i \in 1..Len(output_df) :
               SyntheticName(output_df[i].event_type_name) =>
                   /\ i > Len(output_rows)
                   /\ output_df[i] = (enterprise_new_rows \o prepaid_new_rows)[i - Len(output_rows)]
        /\ \A i \in 1..Len(enterprise_new_rows) :
               enterprise_new_rows[i].value
                   = IF NormalizedPct(enterprise_new_rows[i].customer_id) > 0
                     THEN RoundHalfUp(ContributionSum(enterprise_new_rows[i].customer_id, Regulars)
                                          * NormalizedPct(enterprise_new_rows[i].customer_id),
                                      10000)
                     ELSE 0

\* The usage file metered 'Enterprise Support' under the contract of the customer's
\* Enterprise Support term, and the only event of that name is the synthesized one.
C9_Witness ==
    /\ pc = "done" /\ ~aborted
    /\ \E i \in 1..Len(resolved_df) :
           /\ resolved_df[i].sku_name = "Enterprise Support"
           /\ resolved_df[i].customer_id = "cust-1"
    /\ \E i \in 1..Len(resolved_df) : resolved_df[i].sku_name = "Prepaid"
    /\ Len(enterprise_new_rows) = 1 /\ Len(prepaid_new_rows) = 1
    /\ Len(output_rows) = 1
    /\ Len(output_df) = 3

\* The first row of a (tenant id, tenant name) pair.
FirstSeen(tenant_id, tenant_name) ==
    LET same == {i \in 1..Len(resolved_df) : /\ resolved_df[i].tenant_id = tenant_id
                                             /\ resolved_df[i].tenant_name = tenant_name}
    IN  CHOOSE i \in same : \A j \in same : i <= j

NamePairs == {<<resolved_df[i].tenant_id, resolved_df[i].tenant_name>> : i \in 1..Len(resolved_df)}

\* The position of a tenant name among the distinct names of its tenant id, in the
\* order in which they first appear.
InvoiceIndex(tenant_id, tenant_name) ==
    1 + Cardinality({q \in NamePairs : /\ q[1] = tenant_id
                                       /\ FirstSeen(q[1], q[2]) < FirstSeen(tenant_id, tenant_name)})

\* C10: the invoice map holds, for every tenant id, exactly its distinct tenant
\* names, numbered 1..k in first-seen order; and every regular event carries the
\* number of its tenant name.
C10_InvoiceNumbering ==
    pc \in {"terms", "emit", "es_pct", "es_rows", "prepaid", "done"} /\ tabs_bt_contract # <<>> =>
        /\ {invoice_mapping[i].k : i \in 1..Len(invoice_mapping)} = NamePairs
        /\ Len(invoice_mapping) = Cardinality(NamePairs)
        /\ \A i \in 1..Len(invoice_mapping) :
               invoice_mapping[i].v = InvoiceIndex(invoice_mapping[i].k[1], invoice_mapping[i].k[2])
        /\ \A i \in 1..Len(output_rows) :
               \E r \in 1..Len(resolved_df) :
                   /\ RowKey(resolved_df[r]) = output_keys[i]
                   /\ output_rows[i].invoice
                          = InvoiceIndex(resolved_df[r].tenant_id, resolved_df[r].tenant_name)

\* A tenant with two names, the first one seen again after the second: the events
\* of the two names carry invoices 1 and 2.
C10_Witness ==
    /\ pc = "done"
    /\ Len(resolved_df) = 3
    /\ resolved_df[1].tenant_id = "40" /\ resolved_df[2].tenant_id = "40"
    /\ resolved_df[1].tenant_name = resolved_df[3].tenant_name
    /\ resolved_df[1].tenant_name # resolved_df[2].tenant_name
    /\ Len(output_rows) = 2
    /\ output_rows[1].invoice = 1
    /\ output_rows[2].invoice = 2

\* The events of a customer among the first n rows of the output.
EventsOfCustomer(customer_id, n) ==
    {i \in 1..n : i <= Len(output_df) /\ output_df[i].customer_id = customer_id}

----------------------------------------------------------------------------
(* Properties of price_book_transformation.                                *)

\* An entry whose name gives a tenant id and whose content reads as a table.
Readable(entry) == TenantMatch(entry.filename) # "" /\ entry.read = "ok"

\* The entry has every required column, whatever the case of its headers, the
\* payment terms being headed Net Terms, Terms or Term.
HasRequiredColumns(entry) ==
    /\ \A wanted \in {"category", "sku name", "sku description", "unit of measure",
                      "on-demand rate", "disc", "net rate"} :
           \E i \in 1..Len(entry.columns) : Lower(entry.columns[i]) = wanted
    /\ \E i \in 1..Len(entry.columns) :
           Lower(entry.columns[i]) \in {"net terms", "terms", "term"}

Accepted(entry) == Readable(entry) /\ HasRequiredColumns(entry)

ErrorsNaming(filename) == {e \in 1..Len(errors) : errors[e].filename = filename}

\* C6: a file that lacks a required column contributes no rows and exactly one
\* error, which names the file and the missing columns; the frames and the
\* combined rows are those of the archive without such files.
C6_MissingColumnFileRejected ==
    pc = "pb_done" =>
        LET kept == SelectSeq(archive, Accepted)
        IN  /\ \A i \in 1..Len(archive) :
                   Readable(archive[i]) /\ ~HasRequiredColumns(archive[i]) =>
                       /\ \A k \in 1..Len(all_dataframes) :
                              all_dataframes[k].filename # archive[i].filename
                       /\ \A r \in 1..Len(combined) :
                              combined[r].tenant_id # TenantMatch(archive[i].filename)
                       /\ Cardinality(ErrorsNaming(archive[i].filename))
                              = Cardinality({j \in 1..Len(archive) : archive[j] = archive[i]})
                       /\ \A e \in ErrorsNaming(archive[i].filename) :
                              /\ errors[e].kind = "missing_columns"
                              /\ errors[e].columns # <<>>
            /\ all_dataframes = [k \in 1..Len(kept) |-> ResolveFrame(Frame(kept[k]))]
            /\ combined = Concat(all_dataframes)

\* A file without NET RATE between two good files: one error, two frames.
C6_Witness ==
    /\ pc = "pb_done"
    /\ Len(archive) = 3
    /\ Accepted(archive[1]) /\ Accepted(archive[3])
    /\ archive[2].filename = "60_NoRate_SFDC#00000009.csv"
    /\ Len(errors) = 1
    /\ errors[1].columns = <<"NET RATE">>
    /\ Len(all_dataframes) = 2
    /\ Len(combined) >= 2

\* An entry that is a data file and yields no frame.
Dropped(entry) == ~Accepted(entry)

\* C7: when the function returns, every dropped entry has an error naming it.
C7_EveryDroppedEntryHasError ==
    pc = "pb_done" =>
        \A i \in 1..Len(archive) :
            Dropped(archive[i]) => ErrorsNaming(archive[i].filename) # {}

\* The id of the last catalog entry whose name satisfies `same`; NaN when none does.
CatalogId(catalog, same(_)) ==
    LET hits == {i \in 1..Len(catalog) : same(catalog[i].name)}
    IN  IF hits = {} THEN NaN
        ELSE catalog[CHOOSE i \in hits : \A j \in hits : j <= i].id

\* C12: every combined row has the id of the event type whose name equals its SKU
\* name when both are lower-cased, and the id of the integration item whose name
\* is its SKU name letter for letter; it has no id where there is no such entry.
C12_EventLookupFoldsCaseItemLookupExact ==
    pc = "pb_done" =>
        \A r \in 1..Len(combined) :
            /\ combined[r].event_to_track
                   = CatalogId(EventTypes, LAMBDA n : Lower(n) = Lower(combined[r].sku_name))
            /\ combined[r].integration_item_id
                   = CatalogId(IntegrationItems, LAMBDA n : n = combined[r].sku_name)

\* "WIDGET" has the event of "widget" and no item, "Gadget" has the event of
\* "Gadget" and not the item of "gadget", "Widget" has both ids.
C12_Witness ==
    /\ pc = "pb_done"
    /\ \E r \in 1..Len(combined) :
           /\ combined[r].sku_name = "WIDGET"
           /\ combined[r].event_to_track = "evt-widget"
           /\ combined[r].integration_item_id = NaN
    /\ \E r \in 1..Len(combined) :
           /\ combined[r].sku_name = "Gadget"
           /\ combined[r].event_to_track = "evt-gadget"
           /\ combined[r].integration_item_id = NaN
    /\ \E r \in 1..Len(combined) :
           /\ combined[r].sku_name = "Widget"
           /\ combined[r].event_to_track = "evt-widget"
           /\ combined[r].integration_item_id = "item-widget"

\* The rate rows of the accepted entries, in archive order, each with its entry.
RECURSIVE RateRowsOf(_)
RateRowsOf(entries) ==
    IF entries = <<>> THEN <<>>
    ELSE (IF Accepted(Head(entries))
          THEN [i \in 1..Len(Head(entries).rows) |->
                   [filename |-> Head(entries).filename, row |-> Head(entries).rows[i]]]
          ELSE <<>>)
         \o RateRowsOf(Tail(entries))

\* C20: the composed billing terms are the rate rows of the accepted files, one
\* term for each row and in the same order, whether the tenant of the file has a
\* customer and whether the SKU name is in either catalog; a term has no
\* customer_id, event_to_track or integration_item_id where nothing matched.
C20_EveryRateRowYieldsOneTerm ==
    pc = "pb_done" =>
        LET rate_rows == RateRowsOf(archive)
        IN  /\ Len(filtered_df) = Len(rate_rows)
            /\ \A k \in 1..Len(rate_rows) :
                   LET tenant_id == TenantMatch(rate_rows[k].filename)
                       sku_name == rate_rows[k].row.sku_name
                   IN  /\ filtered_df[k].tenant_id = tenant_id
                       /\ filtered_df[k].contract_name = ContractMatch(rate_rows[k].filename)
                       /\ filtered_df[k].name = sku_name
                       /\ filtered_df[k].customer_id
                              = IF CustomerOfTenant(tenant_id) = "" THEN NaN
                                ELSE CustomerOfTenant(tenant_id)
                       /\ filtered_df[k].event_to_track
                              = CatalogId(EventTypes, LAMBDA n : Lower(n) = Lower(sku_name))
                       /\ filtered_df[k].integration_item_id
                              = CatalogId(IntegrationItems, LAMBDA n : n = sku_name)

\* A tenant without a customer and a SKU in neither catalog beside a fully
\* matched row: both are terms.
C20_Witness ==
    /\ pc = "pb_done"
    /\ \E k \in 1..Len(filtered_df) :
           /\ filtered_df[k].tenant_id = "227"
           /\ filtered_df[k].name = "Sprocket"
           /\ filtered_df[k].customer_id = NaN
           /\ filtered_df[k].event_to_track = NaN
           /\ filtered_df[k].integration_item_id = NaN
    /\ \E k \in 1..Len(filtered_df) :
           /\ filtered_df[k].customer_id = "cust-1"
           /\ filtered_df[k].event_to_track = "evt-widget"
           /\ filtered_df[k].integration_item_id = "item-widget"
    /\ \E k \in 1..Len(filtered_df) :
           /\ filtered_df[k].customer_id = "cust-1"
           /\ filtered_df[k].name = "Gadget"
           /\ filtered_df[k].integration_item_id = NaN


----------------------------------------------------------------------------
(* Properties of the processing run.                                       *)

RunIsOver == pc \in {"done", "prepaid_reported", "reported", "pushed"}

\* The scenario of C14: the price book holds tenant "40" with the one rate row
\* (Widget, "10.00") under contract SFDC#1, the usage file has the one row
\* (40, Widget, SFDC#1, meter "5"), and there is neither an Enterprise Support
\* file nor a Prepaid file.  Both registries resolve tenant "40" to cust-1.
C14_Scenario ==
    /\ archive = <<Acme1>>
    /\ raw_usage_has_columns
    /\ raw_usage_df = <<UsageRowOf("40", "Acme", "Widget", "SFDC#1", "5")>>
    /\ enterprise_support_file = NoFile
    /\ prepaid_file = NoFile

\* C14: end to end, the scenario gives exactly one usage event, of customer
\* cust-1, for event type Widget, with value 5 (500 hundredths) and invoice 1,
\* whichever contract creations succeeded.
C14_EndToEndOneEvent ==
    (C14_Scenario /\ RunIsOver) =>
        /\ ~aborted
        /\ Len(output_df) = 1
        /\ output_df[1].customer_id = "cust-1"
        /\ output_df[1].event_type_name = "Widget"
        /\ output_df[1].value = 500
        /\ ~output_df[1].nan
        /\ output_df[1].invoice = 1

C14_Witness ==
    /\ C14_Scenario
    /\ pc = "done"
    /\ Len(output_df) = 1
    /\ Len(tabs_bt_contract) = 1
    /\ tabs_bt_contract[1].amount_1 = "10.00"
    /\ tabs_bt_contract[1].contract_id # ""

\* The (tenant, SKU, contract) triples that the rows of the usage file hold, as
\* they are written in the file; a file without these columns holds none.
UsageTriples ==
    {<<raw_usage_df[i].tenant_id, raw_usage_df[i].sku_name, raw_usage_df[i].contract>> :
        i \in 1..Len(raw_usage_df)}

TermKeyTriple(term) == <<term.tenant_id, term.name, term.contract_name>>

\* C13: tabs_billing_terms_to_upload returns exactly the terms of filtered_df
\* whose (tenant_id, name, contract_name) triple occurs in the usage file, in
\* their order; so all of them when the usage file holds every triple.
C13_FilterKeepsExactlyMatchingTerms ==
    (pc = "bt_clean" /\ raw_usage_given) =>
        tabs_bt_clean_df = SelectSeq(filtered_df, LAMBDA term : TermKeyTriple(term) \in UsageTriples)

\* A usage file that holds the triple of every term, and a Tenant ID column
\* with a blank cell: the terms are dropped all the same.
C13_BlankTenantCellDropsTerms ==
    /\ pc = "bt_clean"
    /\ raw_usage_has_columns
    /\ filtered_df # <<>>
    /\ \A i \in 1..Len(filtered_df) : TermKeyTriple(filtered_df[i]) \in UsageTriples
    /\ \E i \in 1..Len(raw_usage_df) : raw_usage_df[i].tenant_id = NaN
    /\ tabs_bt_clean_df = <<>>

\* A usage file without the required columns: every term is kept.
C13_UnreadableUsageKeepsTerms ==
    /\ pc = "bt_clean"
    /\ raw_usage_given
    /\ ~raw_usage_has_columns
    /\ tabs_bt_clean_df = filtered_df
    /\ filtered_df # <<>>

\* Where the Tenant ID column has no blank cell and the file has its columns,
\* the filter is exact.
C13_FilterExactOnCleanFiles ==
    (/\ pc = "bt_clean"
     /\ raw_usage_has_columns
     /\ \A i \in 1..Len(raw_usage_df) : raw_usage_df[i].tenant_id # NaN) =>
        tabs_bt_clean_df = SelectSeq(filtered_df, LAMBDA term : TermKeyTriple(term) \in UsageTriples)

\* The tenants that an auxiliary file lists: the cells of its tenant column that
\* are not blank, as they are written in the file.
AuxTenants(file) ==
    IF file.given THEN {file.rows[i].tenant_id : i \in 1..Len(file.rows)} \ {NaN} ELSE {}

\* `after` is `before` followed by exactly one synthetic term for every tenant of
\* the file that has a term in `before`, with the customer_id of a term of that
\* tenant and the fixed attributes, and by nothing else.
OneSyntheticTermPerTenant(before, after, file, name, amount_1, is_recurring) ==
    LET tenants == {t \in AuxTenants(file) : \E i \in 1..Len(before) : before[i].tenant_id = t}
        added == SubSeq(after, Len(before) + 1, Len(after))
    IN  /\ Len(after) >= Len(before)
        /\ SubSeq(after, 1, Len(before)) = before
        /\ \A t \in tenants : Cardinality({k \in 1..Len(added) : added[k].tenant_id = t}) = 1
        /\ \A k \in 1..Len(added) :
               /\ added[k].tenant_id \in tenants
               /\ \E i \in 1..Len(before) :
                      /\ before[i].tenant_id = added[k].tenant_id
                      /\ AsStr(before[i].customer_id) = added[k].customer_id
               /\ added[k].name = name
               /\ added[k].amount_1 = amount_1
               /\ added[k].is_recurring = is_recurring

\* C16: enterprise_support appends exactly one 'Enterprise Support' term (amount
\* '1', not recurring) for every tenant of the Enterprise Support file that has a
\* term, and prepaid exactly one 'Prepaid' term (amount '-1', recurring) for
\* every tenant of the Prepaid file that has a term; other tenants get none.
C16_OneSyntheticTermPerAuxTenant ==
    pc = "bt_prepaid" =>
        /\ OneSyntheticTermPerTenant(tabs_bt_clean_df, tabs_bt_enterprise,
                                     enterprise_support_file, "Enterprise Support", "1", "FALSE")
        /\ OneSyntheticTermPerTenant(tabs_bt_enterprise, tabs_bt_prepaid_enterprise,
                                     prepaid_file, "Prepaid", "-1", "TRUE")

\* An Enterprise Support file that lists tenant 40, which has a term, and has a
\* blank Tenant ID cell: no Enterprise Support term is appended.
C16_BlankTenantCellNoEnterpriseTerm ==
    /\ pc = "bt_prepaid"
    /\ "40" \in AuxTenants(enterprise_support_file)
    /\ \E i \in 1..Len(enterprise_support_file.rows) :
           enterprise_support_file.rows[i].tenant_id = NaN
    /\ \E i \in 1..Len(tabs_bt_clean_df) : tabs_bt_clean_df[i].tenant_id = "40"
    /\ tabs_bt_enterprise = tabs_bt_clean_df

\* prepaid reads the tenant ids as whole numbers, and so does what C16 says for
\* every Prepaid file; enterprise_support does for the files without a blank
\* Tenant ID cell.
C16_HoldsWithoutBlankTenantCell ==
    pc = "bt_prepaid" =>
        /\ OneSyntheticTermPerTenant(tabs_bt_enterprise, tabs_bt_prepaid_enterprise,
                                     prepaid_file, "Prepaid", "-1", "TRUE")
        /\ (\A i \in 1..Len(enterprise_support_file.rows) :
                enterprise_support_file.rows[i].tenant_id # NaN) =>
               OneSyntheticTermPerTenant(tabs_bt_clean_df, tabs_bt_enterprise,
                                         enterprise_support_file, "Enterprise Support", "1",
                                         "FALSE")

C16_SyntheticTermsAppended ==
    /\ pc = "bt_prepaid"
    /\ Len(tabs_bt_enterprise) > Len(tabs_bt_clean_df)
    /\ Len(tabs_bt_prepaid_enterprise) > Len(tabs_bt_enterprise) + 1

\* The custom fields of a customer that are called `name`, and those of them
\* that have a value.
FieldsNamed(customer, name) ==
    SelectSeq(customer.customFields, LAMBDA field : field.customFieldName = name)

FieldsWithValue(customer, name) ==
    SelectSeq(FieldsNamed(customer, name), LAMBDA field : field.customFieldValue # "")

\* The steps of create_tabs_ready_usage that follow the building of the map.
TenantMapBuilt == pc \in {"aggregate", "terms", "emit", "es_pct", "es_rows", "prepaid"}

\* The entries of tenant_to_customer_id, as a set of (key, customer) pairs.
TenantMapEntries ==
    {<<tenant_to_customer_id[i].k, tenant_to_customer_id[i].v>> :
        i \in 1..Len(tenant_to_customer_id)}

\* The statement of C15 as it is worded: a customer that has a 'Tenant ID' field
\* is entered under that field's value, and 'Account #' serves only a customer
\* without any 'Tenant ID' field.
C15_AccountOnlyWhenTenantFieldAbsent ==
    TenantMapBuilt =>
        \A i \in 1..Len(customers_data) :
            FieldsNamed(customers_data[i], "Tenant ID") # <<>> =>
                \A j \in 1..Len(tenant_to_customer_id) :
                    tenant_to_customer_id[j].v = customers_data[i].id =>
                        tenant_to_customer_id[j].k
                            = Head(FieldsNamed(customers_data[i], "Tenant ID")).customFieldValue

\* C15, amended: every customer is entered under the value of its first
\* 'Tenant ID' field that has a value; a customer none of whose 'Tenant ID'
\* fields has a value (the field is absent or blank) is entered under the value
\* of its first 'Account #' field that has a value; a customer with neither
\* has no entry; and the map holds no other entry.
C15_FirstTenantFieldWithValueThenAccount ==
    TenantMapBuilt =>
        TenantMapEntries =
            {<<Head(FieldsWithValue(customers_data[i], "Tenant ID")).customFieldValue,
               customers_data[i].id>> :
                i \in {j \in 1..Len(customers_data) :
                          FieldsWithValue(customers_data[j], "Tenant ID") # <<>>}}
            \cup
            {<<Head(FieldsWithValue(customers_data[i], "Account #")).customFieldValue,
               customers_data[i].id>> :
                i \in {j \in 1..Len(customers_data) :
                          /\ FieldsWithValue(customers_data[j], "Tenant ID") = <<>>
                          /\ FieldsWithValue(customers_data[j], "Account #") # <<>>}}

\* The map built from the registry whose customers have several fields of the
\* same name, a blank 'Tenant ID' and no field at all.
C15_Witness ==
    /\ pc = "prepaid"
    /\ customers_data = RegistryReordered
    /\ TenantMapEntries = {<<"40", "cust-1">>, <<"41", "cust-2">>}

\* C17: a billing-term amount that is no numeric literal counts as zero in the
\* Enterprise Support and Prepaid sums, so every event of a run that returns
\* events has a number for its value.
C17_BadLiteralContributesZero ==
    (pc = "done" /\ ~aborted) => \A i \in 1..Len(output_df) : ~output_df[i].nan

\* A rate cell left blank reaches create_tabs_ready_usage as the text 'nan', and
\* the Enterprise Support and Prepaid values of its customer are NaN.
C17_BlankRateMakesValuesNaN ==
    /\ pc = "done"
    /\ ~aborted
    /\ \E i \in 1..Len(tabs_bt_contract) :
           /\ tabs_bt_contract[i].amount_1 = "nan"
           /\ tabs_bt_contract[i].customer_id = "cust-2"
    /\ \E i \in 1..Len(output_df) :
           /\ output_df[i].customer_id = "cust-2"
           /\ output_df[i].event_type_name = "Enterprise Support"
           /\ output_df[i].nan
    /\ \E i \in 1..Len(output_df) :
           /\ output_df[i].customer_id = "cust-2"
           /\ output_df[i].event_type_name = "Prepaid"
           /\ output_df[i].nan

\* Every other bad literal does count as zero: without a blank rate cell no
\* value is NaN, whatever formula errors the rates and the meters hold.
C17_ZeroWithoutBlankRate ==
    (/\ pc = "done"
     /\ ~aborted
     /\ \A i \in 1..Len(tabs_bt_contract) : tabs_bt_contract[i].amount_1 # "nan") =>
        \A i \in 1..Len(output_df) : ~output_df[i].nan

\* The rate '#REF!' of Gadget counts as zero: the Prepaid value of cust-1 is made
\* of its Widget events alone, (5 + 100) x 10.00 = 1050.00 (the first Widget
\* term of the customer prices both), the 50 Gadget units adding nothing.
C17_FormulaErrorRateAddsNothing ==
    /\ pc = "done"
    /\ ~aborted
    /\ enterprise_support_file = NoFile
    /\ \E i \in 1..Len(tabs_bt_contract) : tabs_bt_contract[i].amount_1 = "#REF!"
    /\ \E i \in 1..Len(output_df) :
           /\ output_df[i].event_type_name = "Gadget"
           /\ output_df[i].value = 5000
    /\ \E i \in 1..Len(output_df) :
           /\ output_df[i].event_type_name = "Prepaid"
           /\ output_df[i].customer_id = "cust-1"
           /\ output_df[i].value = 105000
           /\ ~output_df[i].nan

\* The tenant ids and the contract labels of the billing terms.
TermTenants == {tabs_bt_contract[i].tenant_id : i \in 1..Len(tabs_bt_contract)}

TermContracts == {tabs_bt_contract[i].contract_name : i \in 1..Len(tabs_bt_contract)}

CustomerIsOfTenant(customer_id, tenant_id) ==
    \E i \in 1..Len(tabs_bt_contract) :
        /\ tabs_bt_contract[i].customer_id = customer_id
        /\ tabs_bt_contract[i].tenant_id = tenant_id

\* The amount, in tenths, of the billing term that an event of (customer, name)
\* under a contract matches.
OwnTermAmount(customer_id, name, contract) ==
    LET own == {i \in 1..Len(tabs_bt_contract) :
                   /\ tabs_bt_contract[i].customer_id = customer_id
                   /\ tabs_bt_contract[i].name = name
                   /\ tabs_bt_contract[i].contract_name = contract}
    IN  IF own = {} THEN 0 ELSE ParseAmount(tabs_bt_contract[FirstOf(own)].amount_1)

\* What C18 says the consumption of (tenant, contract) is, in mills: the usage
\* events of the tenant metered under that contract, each times the amount of
\* its own term, and the Enterprise Support events of the Enterprise Support
\* terms of that contract, times the amount '1' of such a term.
ConsumptionByOwnTerm(tenant_id, contract) ==
    SumFn([i \in {j \in 1..Len(output_rows) :
                     /\ output_keys[j][3] = contract
                     /\ CustomerIsOfTenant(output_rows[j].customer_id, tenant_id)} |->
              output_rows[i].value
                  * OwnTermAmount(output_rows[i].customer_id, output_rows[i].event_type_name,
                                  contract)])
    + SumFn([k \in {j \in 1..Len(enterprise_new_rows) :
                       /\ enterprise_support_rows[j].contract_name = contract
                       /\ CustomerIsOfTenant(enterprise_new_rows[j].customer_id, tenant_id)} |->
                enterprise_new_rows[k].value * ParseAmount("1")])

\* The value that the report holds for (tenant, contract): 0 when it has none.
ReportedConsumption(tenant_id, contract) ==
    DictGet(consumption_values, <<tenant_id, contract>>, [mills |-> 0, nan |-> FALSE])

NoBlankRate == \A i \in 1..Len(tabs_bt_contract) : tabs_bt_contract[i].amount_1 # "nan"

\* C18: for every tenant and contract, the commit consumption report holds the
\* sum, over the tenant's events other than Prepaid that belong to that
\* contract, of the event's value times the amount of its own billing term.
C18_ConsumptionPerTenantAndContract ==
    (pc = "reported" /\ ~aborted /\ NoBlankRate) =>
        \A tenant_id \in TermTenants, contract \in TermContracts :
            /\ ~ReportedConsumption(tenant_id, contract).nan
            /\ ReportedConsumption(tenant_id, contract).mills
                   = ConsumptionByOwnTerm(tenant_id, contract)

\* Customer cust-1 has terms under SFDC#1 and SFDC#2 and events under both: the
\* report credits all of them to one contract and holds nothing for the other.
C18_AllCreditedToOneContract ==
    /\ pc = "reported"
    /\ ~aborted
    /\ NoBlankRate
    /\ ConsumptionByOwnTerm("40", "SFDC#1") > 0
    /\ ConsumptionByOwnTerm("40", "SFDC#2") > 0
    /\ Len(consumption_values) = 1

\* Where every customer has its terms under one contract, the report is as C18
\* says.
C18_HoldsForOneContractPerCustomer ==
    (/\ pc = "reported"
     /\ ~aborted
     /\ NoBlankRate
     /\ \A i, j \in 1..Len(tabs_bt_contract) :
            tabs_bt_contract[i].customer_id = tabs_bt_contract[j].customer_id =>
                tabs_bt_contract[i].contract_name = tabs_bt_contract[j].contract_name) =>
        \A tenant_id \in TermTenants, contract \in TermContracts :
            /\ ~ReportedConsumption(tenant_id, contract).nan
            /\ ReportedConsumption(tenant_id, contract).mills
                   = ConsumptionByOwnTerm(tenant_id, contract)

C18_EnterpriseSupportCounted ==
    /\ pc = "reported"
    /\ ~aborted
    /\ \E k \in 1..Len(enterprise_new_rows) :
           /\ enterprise_new_rows[k].value > 0
           /\ enterprise_new_rows[k].customer_id = "cust-1"
    /\ archive = <<Acme1>>
    /\ ReportedConsumption("40", "SFDC#1").mills = ConsumptionByOwnTerm("40", "SFDC#1")
    /\ ReportedConsumption("40", "SFDC#1").mills
           > output_rows[1].value * OwnTermAmount("cust-1", "Widget", "SFDC#1")

\* The customer_id to tenant_id reverse map of the billing terms, read off the
\* terms: a customer's tenant is that of the last term of the customer, and the
\* terms without a customer give no entry.
TermsOfCustomer(customer_id) ==
    {i \in 1..Len(tabs_bt_contract) :
        /\ customer_id \notin {"", "nan"}
        /\ AsStr(tabs_bt_contract[i].customer_id) = customer_id}

LastOf(S) == CHOOSE i \in S : \A j \in S : j <= i

\* The Prepaid events whose customer the reverse map takes to the tenant.
PrepaidEventsOfTenant(tenant_id) ==
    {i \in 1..Len(output_df) :
        /\ ContainsPrepaid(output_df[i].event_type_name)
        /\ TermsOfCustomer(output_df[i].customer_id) # {}
        /\ tabs_bt_contract[LastOf(TermsOfCustomer(output_df[i].customer_id))].tenant_id
               = tenant_id}

PrepaidReported == pc \in {"prepaid_reported", "reported"}

\* C19: the prepaid report has an entry for exactly the tenants that a Prepaid
\* event maps to, and the entry is the sum of the values of those events (in
\* hundredths; an event whose value is NaN counts as 0); the other events and
\* the Prepaid events of a customer that is not in the terms add nothing.
C19_PrepaidReportSumsPrepaidEvents ==
    PrepaidReported =>
        /\ \A k \in 1..Len(prepaid_values) :
               /\ PrepaidEventsOfTenant(prepaid_values[k].k) # {}
               /\ prepaid_values[k].v
                      = SumFn([i \in PrepaidEventsOfTenant(prepaid_values[k].k) |->
                                  output_df[i].value])
               /\ \A j \in 1..Len(prepaid_values) :
                      prepaid_values[j].k = prepaid_values[k].k => j = k
        /\ \A i \in 1..Len(tabs_bt_contract) :
               PrepaidEventsOfTenant(tabs_bt_contract[i].tenant_id) # {} =>
                   DictHas(prepaid_values, tabs_bt_contract[i].tenant_id)

\* A report with an entry for tenant 40, made of a Prepaid event with a value,
\* beside usage events that are left out; tenant 227, whose terms have no
\* customer and give no event, has no entry.
C19_Witness ==
    /\ PrepaidReported
    /\ ~aborted
    /\ DictGet(prepaid_values, "40", 0) > 0
    /\ ~DictHas(prepaid_values, "227")
    /\ \E i \in 1..Len(tabs_bt_contract) : tabs_bt_contract[i].tenant_id = "227"
    /\ \E i \in 1..Len(output_df) :
           /\ output_df[i].event_type_name = "Prepaid"
           /\ output_df[i].customer_id = "cust-1"
           /\ output_df[i].value = DictGet(prepaid_values, "40", 0)
    /\ \E i \in 1..Len(output_df) :
           /\ output_df[i].event_type_name = "Widget"
           /\ output_df[i].value > 0

----------------------------------------------------------------------------
(* Properties of contract creation and of the pushes to the platform.      *)

\* The calls of create_contract made for one customer.
CallsFor(customer_id) ==
    {k \in 1..Len(contract_calls) : contract_calls[k].customer_id = customer_id}

\* The terms of one customer in a set of billing terms.
RowsOfCustomer(terms, customer_id) ==
    {i \in 1..Len(terms) : terms[i].customer_id = customer_id}

\* C21: within one run of create_contracts, create_contract is called exactly
\* once for each distinct non-null customer_id of the billing terms and never
\* for a customer_id that does not occur in them, however many terms the
\* customer has and whichever earlier calls failed.
C21_OneCallPerCustomer ==
    pc = "bt_contract" =>
        /\ \A i \in 1..Len(tabs_bt_prepaid_enterprise) :
               tabs_bt_prepaid_enterprise[i].customer_id # NaN =>
                   Cardinality(CallsFor(tabs_bt_prepaid_enterprise[i].customer_id)) = 1
        /\ \A k \in 1..Len(contract_calls) :
               RowsOfCustomer(tabs_bt_prepaid_enterprise, contract_calls[k].customer_id) # {}

\* Two customers, the second with several terms; the call for the first raised
\* and the call for the second was made all the same, once.
C21_Witness ==
    /\ pc = "bt_contract"
    /\ Len(contract_calls) = 2
    /\ contract_calls[1].outcome = "raised"
    /\ contract_calls[2].outcome = "created"
    /\ Cardinality(RowsOfCustomer(tabs_bt_prepaid_enterprise, contract_calls[2].customer_id)) >= 2

\* The outcome of the create_contract call made for a customer.
OutcomeFor(customer_id) == contract_calls[FirstOf(CallsFor(customer_id))].outcome

\* What C25 says of the contract ids: the rows of a customer whose call gave a
\* contract carry its id, the rows of a customer whose call gave none or raised
\* keep theirs, and every customer got its call.
ContractIdsAssigned ==
    /\ Len(tabs_bt_contract) = Len(tabs_bt_prepaid_enterprise)
    /\ \A i \in 1..Len(tabs_bt_prepaid_enterprise) :
           LET customer_id == tabs_bt_prepaid_enterprise[i].customer_id
           IN  customer_id # NaN =>
                   /\ CallsFor(customer_id) # {}
                   /\ tabs_bt_contract[i].contract_id =
                          IF OutcomeFor(customer_id) = "created"
                          THEN ContractIdOf(customer_id)
                          ELSE tabs_bt_prepaid_enterprise[i].contract_id

\* C25: after create_contracts the rows of a customer whose call succeeded carry
\* the returned contract id, the rows of a customer whose call failed or raised
\* keep their contract_id, a failed call does not prevent the later calls, and
\* the number and order of the rows and all other columns are unchanged.
C25_OnlyContractIdChanges ==
    pc = "bt_contract" =>
        /\ ContractIdsAssigned
        /\ \A i \in 1..Len(tabs_bt_contract) :
               [tabs_bt_contract[i] EXCEPT !.contract_id = tabs_bt_prepaid_enterprise[i].contract_id]
                   = tabs_bt_prepaid_enterprise[i]

\* A contract was created for cust-1, and the term of a tenant that has no
\* customer comes back with the text 'nan' as its customer_id.
C25_MissingCustomerBecomesText ==
    /\ pc = "bt_contract"
    /\ \E k \in 1..Len(contract_calls) : contract_calls[k].outcome = "created"
    /\ \E i \in 1..Len(tabs_bt_contract) :
           /\ tabs_bt_prepaid_enterprise[i].customer_id = NaN
           /\ tabs_bt_contract[i].customer_id = "nan"

\* Up to the text form of customer_id, C25 holds: the contract ids are assigned
\* as it says, and the rows keep their number, order and other columns.
C25_HoldsUpToCustomerText ==
    pc = "bt_contract" =>
        /\ ContractIdsAssigned
        /\ \A i \in 1..Len(tabs_bt_contract) :
               [tabs_bt_contract[i] EXCEPT
                    !.contract_id = tabs_bt_prepaid_enterprise[i].contract_id,
                    !.customer_id = AsStr(@)]
                   = [tabs_bt_prepaid_enterprise[i] EXCEPT !.customer_id = AsStr(@)]

\* C27: create_invoices marks a row SUCCESS only if the obligation of that row
\* was created; a row that push_bt skipped for its missing contract_id, or whose
\* POST was rejected, is marked FAILED, also when other rows succeeded.
C27_SuccessOnlyForCreatedObligations ==
    \A i \in 1..Len(invoices_result) :
        invoices_result[i].push_status = "SUCCESS" => i \in Range(obligations)

\* The contract of one customer could not be created, so push_bt skips its
\* rows; the rows of the other customer are posted, and every row is SUCCESS.
C27_SkippedRowMarkedSuccess ==
    /\ pc = "start"
    /\ \E i \in 1..Len(invoices_result) :
           /\ MissingContractId(tabs_bt_contract[i])
           /\ i \notin Range(obligations)
           /\ invoices_result[i].push_status = "SUCCESS"
    /\ \E k \in 1..Len(contract_calls) : contract_calls[k].outcome = "rejected"

\* No row is marked SUCCESS when no obligation at all was created, and every
\* row of a batch has the same mark.
C27_OneMarkForTheBatch ==
    /\ obligations = <<>> =>
           \A i \in 1..Len(invoices_result) : invoices_result[i].push_status = "FAILED"
    /\ \A i, j \in 1..Len(invoices_result) :
           invoices_result[i].push_status = invoices_result[j].push_status

\* C26: create_usage_events_bulk attempts every event once and in input order,
\* each with an idempotency key of its own, whatever the outcome of the earlier
\* attempts; success_count + failure_count = total = the number of events, and
\* every event index is in exactly one of the lists successes and failures.
C26_EveryEventAttemptedOnce ==
    pc = "pushed" =>
        /\ Len(event_attempts) = Len(output_df)
        /\ \A i \in 1..Len(event_attempts) :
               /\ event_attempts[i].index = i - 1
               /\ event_attempts[i].customer_id = output_df[i].customer_id
               /\ \A j \in 1..Len(event_attempts) :
                      event_attempts[i].idempotency_key = event_attempts[j].idempotency_key
                          => i = j
        /\ bulk_result.total = Len(output_df)
        /\ bulk_result.success_count + bulk_result.failure_count = bulk_result.total
        /\ bulk_result.success_count = Len(bulk_result.successes)
        /\ bulk_result.failure_count = Len(bulk_result.failures)
        /\ \A i \in 1..Len(output_df) :
               Cardinality({k \in 1..Len(bulk_result.successes) : bulk_result.successes[k] = i - 1})
                 + Cardinality({k \in 1..Len(bulk_result.failures) : bulk_result.failures[k] = i - 1})
                   = 1
        /\ \A i \in 1..Len(event_attempts) :
               (event_attempts[i].outcome = "created") <=> (i - 1 \in Range(bulk_result.successes))

\* A batch of several events whose first attempt raised: the later events were
\* attempted and the last one created.
C26_Witness ==
    /\ pc = "pushed"
    /\ Len(event_attempts) >= 3
    /\ event_attempts[1].outcome = "raised"
    /\ event_attempts[Len(event_attempts)].outcome = "created"
    /\ bulk_result.failure_count = 1
    /\ bulk_result.success_count = Len(output_df) - 1

\* C28: tabs_billing_terms_to_upload returns the terms it was given, every row
\* kept, when the raw usage file is absent, of an unsupported type or without its
\* required columns, or when reading it fails otherwise; such a file never
\* gives an empty result.
C28_UnusableUsageFileKeepsAllTerms ==
    (pc = "bt_clean" /\ (~raw_usage_given \/ ~raw_usage_has_columns)) =>
        /\ tabs_bt_clean_df = filtered_df
        /\ tabs_bt_clean_df # <<>>
        /\ tabs_billing_terms_to_upload(filtered_df, raw_usage_df, FALSE, raw_usage_has_columns)
               = filtered_df

\* A usage file was uploaded that lacks its columns, and the terms of two
\* price-book files all got through.
C28_Witness ==
    /\ pc = "bt_clean"
    /\ raw_usage_given
    /\ ~raw_usage_has_columns
    /\ Len(archive) >= 2
    /\ Len(filtered_df) >= 2
    /\ tabs_bt_clean_df = filtered_df

\* `after` is `before` followed by rows that all have the name `name`.
AppendsOnly(before, after, name) ==
    /\ Len(after) >= Len(before)
    /\ SubSeq(after, 1, Len(before)) = before
    /\ \A i \in (Len(before) + 1)..Len(after) : after[i].name = name

\* An auxiliary file that is absent, of an unsupported type or short of columns.
UnusableFile(file, min_columns) ==
    \/ ~file.given
    \/ file.extension \notin {"csv", "xlsx", "xls"}
    \/ file.columns < min_columns

\* No tenant id of the file, as the function reads it, is the tenant of a term.
ResolvesNoTenant(file, terms, tenant_ids) ==
    \A i \in 1..Len(file.rows) : \A j \in 1..Len(terms) :
        AsStr(terms[j].tenant_id) # tenant_ids[i]

\* C30: enterprise_support and prepaid never remove, reorder or alter the terms
\* they are given: the result is these terms in their order, followed by the
\* appended synthetic rows; and it is the terms unchanged when the auxiliary
\* file is absent, of an unsupported type or without the required columns, or
\* when it resolves no tenant.
C30_SyntheticTermsOnlyAppended ==
    pc = "bt_prepaid" =>
        /\ AppendsOnly(tabs_bt_clean_df, tabs_bt_enterprise, "Enterprise Support")
        /\ AppendsOnly(tabs_bt_enterprise, tabs_bt_prepaid_enterprise, "Prepaid")
        /\ (\/ UnusableFile(enterprise_support_file, min_pct_columns)
            \/ ~enterprise_support_file.has_tenant_id
            \/ ResolvesNoTenant(enterprise_support_file, tabs_bt_clean_df,
                   [i \in 1..Len(enterprise_support_file.rows) |->
                       TenantIdsAsStr(enterprise_support_file.rows)[i].tenant_id]))
               => tabs_bt_enterprise = tabs_bt_clean_df
        /\ (\/ UnusableFile(prepaid_file, min_prepaid_columns)
            \/ ResolvesNoTenant(prepaid_file, tabs_bt_enterprise,
                   [i \in 1..Len(prepaid_file.rows) |->
                       PrepaidTenantStr(prepaid_file.rows[i].tenant_id)]))
               => tabs_bt_prepaid_enterprise = tabs_bt_enterprise

\* Both functions appended rows behind terms that include one without a
\* customer, which came through as it was.
C30_Witness ==
    /\ pc = "bt_prepaid"
    /\ Len(tabs_bt_enterprise) > Len(tabs_bt_clean_df)
    /\ Len(tabs_bt_prepaid_enterprise) > Len(tabs_bt_enterprise)
    /\ \E i \in 1..Len(tabs_bt_clean_df) :
           /\ tabs_bt_clean_df[i].customer_id = NaN
           /\ tabs_bt_prepaid_enterprise[i] = tabs_bt_clean_df[i]

\* An Enterprise Support file of an unsupported type and a Prepaid file without
\* its tenant column, both naming tenant 40, which has terms: the terms stay as
\* they are.
C30_NothingAppended ==
    /\ pc = "bt_prepaid"
    /\ enterprise_support_file.given
    /\ UnusableFile(enterprise_support_file, min_pct_columns)
    /\ prepaid_file.given
    /\ UnusableFile(prepaid_file, min_prepaid_columns)
    /\ \E i \in 1..Len(tabs_bt_clean_df) : tabs_bt_clean_df[i].tenant_id = "40"
    /\ tabs_bt_prepaid_enterprise = tabs_bt_clean_df
    /\ tabs_bt_clean_df # <<>>

\* The positions inside create_tabs_ready_usage.
Reconciling == {"aggregate", "terms", "emit", "es_pct", "es_rows", "prepaid"}

\* The number of the last step of the run that has returned; 7 while step 7 runs.
StepOf(position) ==
    CASE position \in {"pb_start", "pb_files"} -> 0
      [] position \in {"pb_done", "stopped"}   -> 1
      [] position = "bt_clean"                 -> 2
      [] position = "bt_enterprise"            -> 3
      [] position = "bt_prepaid"               -> 4
      [] position = "bt_contract"              -> 5
      [] position = "start"                    -> 6
      [] position \in Reconciling              -> 7
      [] position \in {"done", "skipped"}      -> 8
      [] OTHER                                 -> 9

\* One step of the run: no step is left out or taken out of turn, and
\* create_tabs_ready_usage is entered only with a raw usage file.
StepInOrder ==
    /\ StepOf(pc') >= StepOf(pc)
    /\ StepOf(pc') <= 7 => StepOf(pc') <= StepOf(pc) + 1
    /\ (StepOf(pc') = 8 /\ StepOf(pc) < 8) => StepOf(pc) \in {6, 7}
    /\ (pc = "start" /\ pc' \in Reconciling \union {"done"}) => raw_usage_given
    /\ pc' = "skipped" => ~raw_usage_given
    /\ (pc = "pb_done" /\ pc' = "bt_clean" /\ ~raw_usage_given) => tabs_bt_clean_df' = filtered_df

\* What the run has in hand at each step: the contracts are created for the
\* terms with their synthetic rows, the terms are pushed and reconciled with
\* their contract ids, and without a raw usage file nothing is reconciled.
StepsBuildOnEachOther ==
    /\ StepOf(pc) >= 5 =>
           /\ tabs_bt_enterprise = enterprise_support(tabs_bt_clean_df, enterprise_support_file)
           /\ tabs_bt_prepaid_enterprise = prepaid(tabs_bt_enterprise, prepaid_file)
           /\ Len(tabs_bt_contract) = Len(tabs_bt_prepaid_enterprise)
           /\ Len(contract_calls) = Cardinality(ContractCustomers(tabs_bt_prepaid_enterprise))
    /\ StepOf(pc) < 5 => contract_calls = <<>> /\ tabs_bt_contract = <<>>
    /\ StepOf(pc) >= 6 => Len(invoices_result) = Len(tabs_bt_contract)
    /\ StepOf(pc) < 6 => invoices_result = <<>> /\ obligations = <<>>
    /\ (StepOf(pc) < 7 \/ ~raw_usage_given) =>
           /\ tenant_to_customer_id = <<>>
           /\ usage_lookup = <<>>
           /\ output_df = <<>>

\* C24: in one run the stages execute in the order ingest and compose, raw-usage
\* filter, enterprise-support injection, prepaid injection, contract creation,
\* billing-term push, usage reconciliation; contract creation never starts before
\* the synthetic rows are injected, reconciliation never starts before contract
\* creation has returned, and the filter and the reconciliation run only when a
\* raw usage file was uploaded.
C24_StagesInFixedOrder == [](StepsBuildOnEachOther) /\ [][StepInOrder]_vars

\* A run with all four files that went through the seven steps: synthetic rows
\* of both kinds, a contract for a customer, a pushed term and a usage event.
C24_Witness ==
    /\ pc = "done"
    /\ raw_usage_given
    /\ Len(tabs_bt_enterprise) > Len(tabs_bt_clean_df)
    /\ Len(tabs_bt_prepaid_enterprise) > Len(tabs_bt_enterprise)
    /\ \E k \in 1..Len(contract_calls) : contract_calls[k].outcome = "created"
    /\ obligations # <<>>
    /\ output_df # <<>>

----------------------------------------------------------------------------
(* Properties of the synthetic events of create_tabs_ready_usage.          *)

\* The emitted regular keys of a customer and contract, by their place in the
\* output.
EmittedKeys(customer_id, contract_name) ==
    {i \in 1..Len(output_keys) : /\ output_keys[i][1] = customer_id
                                 /\ output_keys[i][3] = contract_name}

\* The invoice of the first emitted key of the customer and contract, 1 when
\* there is none.
FirstEmittedInvoice(customer_id, contract_name) ==
    IF EmittedKeys(customer_id, contract_name) = {} THEN 1
    ELSE output_rows[FirstOf(EmittedKeys(customer_id, contract_name))].invoice

\* C23: the invoice number of every Enterprise Support and Prepaid event is the
\* one that the contract-to-invoice map holds for the customer and the contract
\* of the synthetic term, that is the invoice of the first emitted regular key of
\* that customer and contract, and 1 when the map has no entry for the pair.
C23_SyntheticInvoiceFromContractMap ==
    (pc = "done" /\ ~aborted /\ tabs_bt_contract # <<>>) =>
        /\ \A k \in 1..Len(contract_to_invoice) :
               /\ EmittedKeys(contract_to_invoice[k].k[1], contract_to_invoice[k].k[2]) # {}
               /\ contract_to_invoice[k].v
                      = FirstEmittedInvoice(contract_to_invoice[k].k[1], contract_to_invoice[k].k[2])
        /\ \A i \in 1..Len(output_keys) :
               DictHas(contract_to_invoice, <<output_keys[i][1], output_keys[i][3]>>)
        /\ \A j \in 1..Len(enterprise_new_rows) :
               enterprise_new_rows[j].invoice
                   = FirstEmittedInvoice(enterprise_support_rows[j].customer_id,
                                         enterprise_support_rows[j].contract_name)
        /\ \A j \in 1..Len(prepaid_new_rows) :
               prepaid_new_rows[j].invoice
                   = FirstEmittedInvoice(prepaid_rows[j].customer_id, prepaid_rows[j].contract_name)

\* A customer with events on invoices 1 and 2 whose Enterprise Support event is
\* on invoice 2, the invoice of the first emitted key of the term's contract,
\* and a synthetic event on invoice 1 for want of an entry.
C23_Witness ==
    /\ pc = "done" /\ ~aborted
    /\ \E j \in 1..Len(enterprise_new_rows) :
           /\ enterprise_new_rows[j].invoice = 2
           /\ \E i \in 1..Len(output_rows) :
                  /\ output_rows[i].customer_id = enterprise_new_rows[j].customer_id
                  /\ output_rows[i].invoice = 1
    /\ \E j \in 1..Len(prepaid_new_rows) :
           /\ ~DictHas(contract_to_invoice,
                       <<prepaid_rows[j].customer_id, prepaid_rows[j].contract_name>>)
           /\ prepaid_new_rows[j].invoice = 1

\* The amount of the first term, in term order, of a customer and a name,
\* whatever its contract; 0 when the customer has no term of that name.
FirstTermAmount(customer_id, name) ==
    LET named == SelectSeq(tabs_bt_contract,
                           LAMBDA term : term.customer_id = customer_id /\ term.name = name)
    IN  IF named = <<>> THEN 0 ELSE AmountTenths(Head(named).amount_1)

\* The sum, in mills, of value * amount over the events of a customer among the
\* first n rows of the output, each priced by FirstTermAmount.
SumByFirstTerm(customer_id, n, names) ==
    SumFn([i \in {k \in EventsOfCustomer(customer_id, n) : output_df[k].event_type_name \in names}
              |-> output_df[i].value
                      * FirstTermAmount(customer_id, output_df[i].event_type_name)])

EventNames == {output_df[i].event_type_name : i \in 1..Len(output_df)}

\* C29: in the Enterprise Support and Prepaid sums an event is priced with the
\* amount of the first billing term, in term order, that has the event's
\* customer_id and name, whatever the contract of the term and of the event; an
\* event without such a term adds nothing.
C29_EventsPricedByFirstTermOfName ==
    (pc = "done" /\ ~aborted) =>
        /\ \A j \in 1..Len(enterprise_new_rows) :
               LET customer_id == enterprise_support_rows[j].customer_id
               IN  NormalizedPct(customer_id) > 0 =>
                       enterprise_new_rows[j].value
                           = RoundHalfUp(SumByFirstTerm(customer_id, Regulars,
                                                        EventNames \ {"Enterprise Support"})
                                             * NormalizedPct(customer_id), 10000)
        /\ \A j \in 1..Len(prepaid_new_rows) :
               prepaid_new_rows[j].value
                   = RoundHalfUp(SumByFirstTerm(prepaid_rows[j].customer_id, Synthetics,
                                                EventNames), 10)

\* Customer cust-1 has Widget at 2 under SFDC#1 and, later in the terms, at 0.1
\* under SFDC#2; its Widget events of both contracts, worth 5 and 0.25, are
\* priced at 2, so that the Prepaid event is worth 10.50 and not 10.03.
C29_Witness ==
    /\ pc = "done" /\ ~aborted
    /\ tabs_bt_contract = <<W1, W2, E1, P1>>
    /\ Len(output_rows) = 2
    /\ output_keys[1][3] = "SFDC#1" /\ output_keys[2][3] = "SFDC#2"
    /\ output_rows[1].event_type_name = "Widget" /\ output_rows[1].value = 500
    /\ output_rows[2].event_type_name = "Widget" /\ output_rows[2].value = 25
    /\ Len(enterprise_new_rows) = 1 /\ enterprise_new_rows[1].value = 0
    /\ Len(prepaid_new_rows) = 1 /\ prepaid_new_rows[1].value = 1050

----------------------------------------------------------------------------
(* Properties of the result of price_book_transformation.                  *)

\* The per-file entries of the result that hold the rate rows of a file.
EntriesOfFile(filename) ==
    {k \in 1..Len(customer_files) : customer_files[k].v.filename = filename}

\* C22: price_book_transformation returns one rate-row set for each accepted
\* file of the archive and a combined set that is the concatenation of the rows
\* of all accepted files, also when two accepted files have the same tenant id.
C22_OneRowSetPerAcceptedFile ==
    pc = "pb_done" =>
        /\ Len(customer_files) = Len(all_dataframes)
        /\ \A i \in 1..Len(all_dataframes) :
               \E k \in 1..Len(customer_files) : customer_files[k].v.data = i
        /\ combined = Concat(all_dataframes)

\* Two files of tenant 40, one for each of its contracts, are both accepted:
\* the combined set has the rows of both, and the result holds one entry, that
\* of the second file.
C22_SecondFileOfTenantReplacesFirst ==
    /\ pc = "pb_done"
    /\ Len(all_dataframes) = 2
    /\ Len(customer_files) = 1
    /\ customer_files[1].k = "40"
    /\ customer_files[1].v.data = 2
    /\ all_dataframes[1].contract_name # all_dataframes[2].contract_name
    /\ Len(combined) = Len(all_dataframes[1].rows) + Len(all_dataframes[2].rows)

\* The combined set is the concatenation of the rows of all accepted files, and
\* archives whose accepted files have distinct tenant ids give one entry a file.
C22_HoldsForDistinctTenants ==
    pc = "pb_done" =>
        /\ combined = Concat(all_dataframes)
        /\ (\A i, j \in 1..Len(all_dataframes) :
                all_dataframes[i].tenant_id = all_dataframes[j].tenant_id => i = j)
               => /\ Len(customer_files) = Len(all_dataframes)
                  /\ \A i \in 1..Len(all_dataframes) :
                         \E k \in 1..Len(customer_files) : customer_files[k].v.data = i

====
